---- MODULE Spec2Model ----
(***************************************************************************)
(* Holdings aggregation of the Endur SDK: the HoldingsManager fan-out over *)
(* the per-protocol valuators, the valuators' validation boundary and the  *)
(* deployment-window gate of BaseHoldingsService.                          *)
(***************************************************************************)
EXTENDS Integers, Sequences, FiniteSets, TLC

VARIABLES
    services,     \* HoldingsManager.services: protocol id -> valuator instance
    manager,      \* the other fields of the HoldingsManager
    phase,        \* the promise of one getMultiProtocolHoldings call
    protocols,    \* the protocols argument of the call
    request,      \* the request argument of the call
    byProtocol,   \* the call's byProtocol record
    total,        \* the call's total accumulator
    pc,           \* position of each per-protocol task
    retry,        \* the retry counter of each per-protocol task
    calls,        \* number of getHoldings invocations made by each task
    last,         \* outcome of the latest settled getHoldings of each task
    lap,          \* parity of the number of loop iterations of each task
    gate,         \* one evaluation of isContractDeployed
    val,          \* one run of a valuator's holdings computation
    sdk           \* the EndurSDK object that owns the HoldingsManager

vars == <<services, manager, phase, protocols, request, byProtocol, total, pc, retry,
          calls, last, lap, gate, val, sdk>>

managerVars == <<services, manager, phase, protocols, request, byProtocol, total, pc,
                 retry, calls, last, lap, sdk>>

----------------------------------------------------------------------------
(* Bounds of the model *)

MaxProtocols == 2   \* length of the protocols argument
MaxAmount == 1      \* largest amount one valuator reports per token
MaxTotal == 2       \* largest value of a component of total
MaxCalls == 2       \* the invocation counter stops counting here
MaxIo == 1          \* chain / index calls counted per invocation
MaxBlock == 3       \* largest block number of the gate's inputs

----------------------------------------------------------------------------
(* Decimal strings: amounts are strings of digits, read with BigInt and   *)
(* written back with toString.                                            *)

Digits == <<"0", "1", "2", "3", "4", "5", "6", "7", "8", "9">>

DigitVal(c) == (CHOOSE d \in 1..10 : Digits[d] = c) - 1

RECURSIVE BigInt(_)
BigInt(s) ==
    IF Len(s) = 0 THEN 0
    ELSE BigInt(SubSeq(s, 1, Len(s) - 1)) * 10 + DigitVal(s[Len(s)])

RECURSIVE toString(_)
toString(n) ==
    IF n < 10 THEN <<Digits[n + 1]>>
    ELSE toString(n \div 10) \o <<Digits[(n % 10) + 1]>>

Holdings(x, s) == [xSTRKAmount |-> toString(x), STRKAmount |-> toString(s)]

createZeroHoldings == [xSTRKAmount |-> <<"0">>, STRKAmount |-> <<"0">>]

Min(a, b) == IF a < b THEN a ELSE b

----------------------------------------------------------------------------
(* Values of the request and of the configuration *)

ProtocolType ==
    {"lst", "ekubo", "nostraLending", "nostraDex", "opus", "strkfarm",
     "strkfarmEkubo", "vesu"}

\* config.provider: an RpcProvider, or nothing
NoProvider == "undefined"
Providers == {NoProvider, "rpc"}

\* request.address: a string (a sequence of characters) or a non-string value
Str(cs) == [type |-> "string", chars |-> cs]
Addresses ==
    { Str(<<"0", "x", "1">>), Str(<<"1", "x", "0">>), Str(<<"0">>), Str(<<>>),
      [type |-> "undefined", chars |-> <<>>],
      [type |-> "number", chars |-> <<>>] }

startsWith(cs, prefix) ==
    /\ Len(cs) >= Len(prefix)
    /\ SubSeq(cs, 1, Len(prefix)) = prefix

\* isValidStarknetAddress without its prefix test
isValidStarknetAddress_NoPrefixCheck(address) ==
    IF address.type # "string" \/ address.chars = <<>> THEN FALSE
    ELSE TRUE

isValidStarknetAddress(address) ==
    IF address.type # "string" \/ address.chars = <<>> THEN FALSE
    ELSE startsWith(address.chars, <<"0", "x">>)

----------------------------------------------------------------------------
(* BaseHoldingsService.isContractDeployed.  A BlockIdentifier is a number, *)
(* a string, null or undefined; a string is kept with the number           *)
(* JavaScript converts it to when it is compared with a number.            *)

Num(n) == [t |-> "number", s |-> "", n |-> n, nan |-> FALSE]
Tag(s) == [t |-> "string", s |-> s, n |-> 0, nan |-> TRUE]
HashString(n) == [t |-> "string", s |-> "0x", n |-> n, nan |-> FALSE]
Undefined == [t |-> "undefined", s |-> "", n |-> 0, nan |-> TRUE]
Null == [t |-> "null", s |-> "", n |-> 0, nan |-> FALSE]
Latest == Tag("latest")
Pending == Tag("pending")

\* maxBlock?: number
NoMaxBlock == [defined |-> FALSE, n |-> 0]
MaxBlockAt(n) == [defined |-> TRUE, n |-> n]

NumberIsInteger(b) == b.t = "number"
GreaterThan(b, m) == ~b.nan /\ b.n > m
Falsy(b) ==
    \/ b.t \in {"undefined", "null"}
    \/ (b.t = "number" /\ b.n = 0)
    \/ (b.t = "string" /\ b.s = "")
Truthy(maxBlock) == maxBlock.defined /\ maxBlock.n # 0

\* isContractDeployed without the !blockNumber test
isContractDeployed_NoFalsyTest(blockNumber, deploymentBlock, maxBlock) ==
    LET b == IF blockNumber.t = "undefined" THEN Pending ELSE blockNumber
        lowerCondition == NumberIsInteger(b) /\ b.n < deploymentBlock
        upperCondition ==
            /\ Truthy(maxBlock)
            /\ \/ GreaterThan(b, maxBlock.n)
               \/ b = Latest
               \/ b = Pending
    IN ~(lowerCondition \/ upperCondition)

isContractDeployed(blockNumber, deploymentBlock, maxBlock) ==
    LET b == IF blockNumber.t = "undefined" THEN Pending ELSE blockNumber
        lowerCondition == NumberIsInteger(b) /\ b.n < deploymentBlock
        upperCondition ==
            /\ Truthy(maxBlock)
            /\ \/ GreaterThan(b, maxBlock.n)
               \/ b = Latest
               \/ b = Pending
               \/ Falsy(b)
    IN ~(lowerCondition \/ upperCondition)

BlockIdentifiers ==
    {Num(n) : n \in 0..(MaxBlock + 1)}
        \cup {HashString(n) : n \in 0..(MaxBlock + 1)}
        \cup {Latest, Pending, Undefined, Null}

MaxBlocks == {NoMaxBlock} \cup {MaxBlockAt(n) : n \in 0..MaxBlock}

GateIdle == [evaluated |-> FALSE]

GateInputs ==
    [evaluated : {FALSE}, blockNumber : BlockIdentifiers,
     deploymentBlock : 0..MaxBlock, maxBlock : MaxBlocks, result : {FALSE}]

\* one call of isContractDeployed
IsContractDeployedCall ==
    /\ ~gate.evaluated
    /\ gate' = [gate EXCEPT
                  !.evaluated = TRUE,
                  !.result = isContractDeployed(gate.blockNumber,
                                                gate.deploymentBlock,
                                                gate.maxBlock)]
    /\ UNCHANGED <<managerVars, val>>

----------------------------------------------------------------------------
(* The valuators.  What the chain, the GraphQL index and the REST index   *)
(* answer during one invocation is the environment's choice env:          *)
(*   io    how many chain / index calls the body issues (0: every         *)
(*         contract of the valuator is gated off at the queried block),   *)
(*   fails whether one of those calls fails,                              *)
(*   x, s  the amounts the body has summed when it returns.               *)

ReturnsSTRK(k) == k \in {"ekubo", "nostraDex", "strkfarmEkubo"}

Envs(k) ==
    { e \in [io : 0..MaxIo, fails : BOOLEAN, x : 0..MaxAmount, s : 0..MaxAmount] :
        /\ e.io = 0 => (~e.fails /\ e.x = 0 /\ e.s = 0)
        /\ ~ReturnsSTRK(k) => e.s = 0 }

\* the protocol field the valuator writes into its responses
ProtocolLabel(k) ==
    CASE k = "lst" -> "lst"
      [] k = "ekubo" -> "ekubo"
      [] k = "nostraLending" -> "nostra"
      [] k = "nostraDex" -> "nostra"
      [] k = "opus" -> "opus"
      [] k = "strkfarm" -> "strkfarm"
      [] k = "strkfarmEkubo" -> "strkfarm"
      [] k = "vesu" -> "vesu"

\* getHoldings wraps its body in try/catch and answers success=false
HasFailureBoundary(k) == k \notin {"opus", "vesu"}

Raised(msg, n) ==
    [kind |-> "throw", success |-> FALSE, hasData |-> FALSE,
     data |-> createZeroHoldings, error |-> msg, protocol |-> "", io |-> n]

SuccessResponse(k, h, n) ==
    [kind |-> "response", success |-> TRUE, hasData |-> TRUE,
     data |-> h, error |-> "", protocol |-> ProtocolLabel(k), io |-> n]

ErrorResponse(k, msg, n) ==
    [kind |-> "response", success |-> FALSE, hasData |-> FALSE,
     data |-> createZeroHoldings, error |-> msg, protocol |-> ProtocolLabel(k),
     io |-> n]

\* validateProvider
validateProvider(provider) == provider # NoProvider

\* the protocol-specific body that runs once both validations have passed
ValuatorBody(k, env) ==
    IF env.io = 0 THEN SuccessResponse(k, createZeroHoldings, 0)
    ELSE IF ~env.fails THEN SuccessResponse(k, Holdings(env.x, env.s), env.io)
    ELSE IF k = "ekubo" THEN SuccessResponse(k, Holdings(env.x, env.s), env.io)
    ELSE IF k = "strkfarm" THEN SuccessResponse(k, createZeroHoldings, env.io)
    ELSE Raised("chain call failed", env.io)

\* the statements of getHoldings, without the failure boundary
GetHoldingsBody(k, service, req, env) ==
    IF ~validateProvider(service.provider) THEN Raised("Provider not set", 0)
    ELSE IF ~isValidStarknetAddress(req.address)
         THEN Raised("Invalid address provided", 0)
    ELSE ValuatorBody(k, env)

\* getHoldings of valuator k
getHoldings(k, service, req, env) ==
    LET r == GetHoldingsBody(k, service, req, env) IN
    IF r.kind = "throw" /\ HasFailureBoundary(k)
    THEN ErrorResponse(k, r.error, r.io)
    ELSE r

\* HoldingsManager.getProtocolHoldings
getProtocolHoldings(svcs, k, req, env) ==
    IF k \notin DOMAIN svcs
    THEN [kind |-> "response", success |-> FALSE, hasData |-> FALSE,
          data |-> createZeroHoldings, error |-> "not supported",
          protocol |-> k, io |-> 0]
    ELSE getHoldings(k, svcs[k], req, env)

\* SDKOptions: the configuration a manager and its valuators are built from
Networks == {"mainnet", "testnet", "devnet"}
SDKOptions(network, provider) ==
    [config |-> [network |-> network], provider |-> provider]

\* X_CONFIG[config.config.network] || X_CONFIG.mainnet: the table of
\* contract addresses and deployment blocks a valuator keeps
ConfigTable(network) ==
    IF network \in {"mainnet", "testnet"} THEN network ELSE "mainnet"

\* the valuator constructors of HoldingsManager's constructor and of
\* updateNetwork; instance tells the objects of one construction from those
\* of another
NewServices(config, instance) ==
    [k \in ProtocolType |->
       [provider |-> config.provider,
        config |-> ConfigTable(config.config.network),
        instance |-> instance]]

NoCall == [name |-> "none", arg |-> "", before |-> << >>]

\* HoldingsManager's constructor; constructed counts the constructions of
\* valuators, call is the latest setProvider or updateNetwork call
NewManager(config) ==
    [network |-> config.config.network, provider |-> config.provider,
     sdkConfig |-> config, constructed |-> 0, call |-> NoCall]

----------------------------------------------------------------------------
(* The holdings computations of the valuators, read by read.  A run has   *)
(* the queried block and an environment env that fixes what the chain     *)
(* and the indexes answer; its result is what the function returns or     *)
(* that it throws, and the sequence of reads it has issued.               *)

BlockSlack == 1     \* blocks taken on each side of a deployment boundary
MaxTroves == 2      \* troves of one account
MaxRate == 2        \* assets that one vault share converts to
MaxPositions == 2   \* Ekubo positions of one account
MaxCollateral == 1  \* (pool, debt token) pairs holding collateral

Read(contract, entrypoint, arg) ==
    [contract |-> contract, entrypoint |-> entrypoint, arg |-> arg]

Returned(h, reads) == [outcome |-> "return", holdings |-> h, reads |-> reads]
Thrown(reads) ==
    [outcome |-> "throw", holdings |-> createZeroHoldings, reads |-> reads]
NotRun == [outcome |-> "none", holdings |-> createZeroHoldings, reads |-> <<>>]

ValIdle ==
    [kind |-> "none", blockNumber |-> Undefined, env |-> <<>>, done |-> FALSE,
     result |-> NotRun]

\* the values of request.blockNumber: the blocks around the given
\* deployment boundaries, block 0, hash strings and the absent values
QueryBlocks(boundaries) ==
    {Num(t + d) : t \in boundaries, d \in (0 - BlockSlack)..BlockSlack}
        \cup {HashString(t) : t \in boundaries}
        \cup {Num(0), Latest, Pending, Undefined, Null}

ValInputs(kind, boundaries, envs) ==
    [kind : {kind}, blockNumber : QueryBlocks(boundaries), env : envs,
     done : {FALSE}, result : {NotRun}]

RECURSIVE SumSeq(_)
SumSeq(s) == IF Len(s) = 0 THEN 0 ELSE s[1] + SumSeq(Tail(s))

\* the first n reads of a sequence
FirstReads(reads, n) == SubSeq(reads, 1, Min(n, Len(reads)))

----------------------------------------------------------------------------
(* OpusHoldingsService *)

OPUS_CONFIG ==
    [contract |-> [deploymentBlock |-> 973643, maxBlock |-> NoMaxBlock]]

TroveIds == 1..MaxTroves

\* answers of get_user_trove_ids: nothing, or a list of trove ids
UserTroves ==
    {[nullish |-> TRUE, ids |-> <<>>]}
        \cup {[nullish |-> FALSE, ids |-> s] :
                s \in UNION {[1..n -> TroveIds] : n \in 0..MaxTroves}}

\* failAt: which read of the run fails (0: none)
OpusEnvs ==
    [userTroves : UserTroves, balance : [TroveIds -> 0..MaxAmount],
     failAt : 0..(MaxTroves + 1)]

\* getOpusHoldings issuing a balance read for the first trove only
getOpusHoldings_FirstTroveOnly(blockNumber, env) ==
    LET c == OPUS_CONFIG.contract
        ids == env.userTroves.ids
        idsRead == <<Read("opus", "get_user_trove_ids", 0)>>
        balanceReads == [i \in 1..Min(1, Len(ids)) |->
                           Read("opus", "get_trove_asset_balance", ids[i])]
        balances == [i \in 1..Min(1, Len(ids)) |-> env.balance[ids[i]]]
    IN
    IF ~isContractDeployed(blockNumber, c.deploymentBlock, c.maxBlock)
    THEN Returned(createZeroHoldings, <<>>)
    ELSE IF env.failAt = 1 THEN Thrown(idsRead)
    ELSE IF env.userTroves.nullish \/ Len(ids) = 0
    THEN Returned(createZeroHoldings, idsRead)
    ELSE IF env.failAt \in 2..(Len(ids) + 1)
    THEN Thrown(idsRead \o balanceReads)
    ELSE Returned([xSTRKAmount |-> toString(SumSeq(balances)),
                   STRKAmount |-> <<"0">>],
                  idsRead \o balanceReads)

getOpusHoldings(blockNumber, env) ==
    LET c == OPUS_CONFIG.contract
        ids == env.userTroves.ids
        idsRead == <<Read("opus", "get_user_trove_ids", 0)>>
        balanceReads == [i \in 1..Len(ids) |->
                           Read("opus", "get_trove_asset_balance", ids[i])]
        balances == [i \in 1..Len(ids) |-> env.balance[ids[i]]]
    IN
    IF ~isContractDeployed(blockNumber, c.deploymentBlock, c.maxBlock)
    THEN Returned(createZeroHoldings, <<>>)
    ELSE IF env.failAt = 1 THEN Thrown(idsRead)
    ELSE IF env.userTroves.nullish \/ Len(ids) = 0
    THEN Returned(createZeroHoldings, idsRead)
    ELSE IF env.failAt \in 2..(Len(ids) + 1)
    THEN Thrown(idsRead \o balanceReads)
    ELSE Returned([xSTRKAmount |-> toString(SumSeq(balances)),
                   STRKAmount |-> <<"0">>],
                  idsRead \o balanceReads)

OpusInputs == ValInputs("opus", {OPUS_CONFIG.contract.deploymentBlock}, OpusEnvs)

GetOpusHoldings ==
    /\ val.kind = "opus"
    /\ ~val.done
    /\ val' = [val EXCEPT !.done = TRUE,
                          !.result = getOpusHoldings(val.blockNumber, val.env)]
    /\ UNCHANGED <<managerVars, gate>>

----------------------------------------------------------------------------
(* VesuHoldingsService: the vault tokens *)

VESU_CONFIG ==
    [contracts |->
       [vXSTRK |-> [deploymentBlock |-> 954847, maxBlock |-> MaxBlockAt(1440400)],
        vXSTRKV2 |-> [deploymentBlock |-> 1440456, maxBlock |-> NoMaxBlock],
        vAlterscopeXSTRK |->
            [deploymentBlock |-> 1197971, maxBlock |-> MaxBlockAt(1440400)],
        vAlterscopeXSTRKV2 |->
            [deploymentBlock |-> 1440471, maxBlock |-> NoMaxBlock],
        vRE7rUSDCXSTRK |->
            [deploymentBlock |-> 1240391, maxBlock |-> MaxBlockAt(1440400)],
        vRE7rUSDCXSTRKV2 |->
            [deploymentBlock |-> 1440481, maxBlock |-> NoMaxBlock]],
     singleton |-> [deploymentBlock |-> 954847, maxBlock |-> MaxBlockAt(1440400)],
     singletonV2 |-> [deploymentBlock |-> 1440481, maxBlock |-> NoMaxBlock],
     pools |->
       [RE7_XSTRK |-> [deploymentBlock |-> 954847],
        ALTERSCOPE_XSTRK |-> [deploymentBlock |-> 1197971],
        RE7_rUSDC |-> [deploymentBlock |-> 1240391]]]

\* the vaults array of getVaultHoldings
vaults ==
    {[type |-> "vXSTRK", config1 |-> "vXSTRK", config2 |-> "vXSTRKV2"],
     [type |-> "vAlterscopeXSTRK", config1 |-> "vAlterscopeXSTRK",
      config2 |-> "vAlterscopeXSTRKV2"],
     [type |-> "vRE7rUSDCXSTRK", config1 |-> "vRE7rUSDCXSTRK",
      config2 |-> "vRE7rUSDCXSTRKV2"]}

\* shares[v]: what balance_of of version v answers; rate[v]: the assets
\* convert_to_assets of version v gives for one share
VaultEnvs ==
    [vault : vaults, shares : [1..2 -> 0..MaxAmount], rate : [1..2 -> 1..MaxRate],
     failAt : 0..4]

\* the for loop over vTokens, from its i-th token on; n reads were issued
RECURSIVE VaultLoop(_, _, _, _, _, _)
VaultLoop(vTokens, i, assetsToken, env, totalBalance, reads) ==
    IF i > Len(vTokens)
    THEN Returned([xSTRKAmount |-> toString(totalBalance), STRKAmount |-> <<"0">>],
                  reads)
    ELSE
      LET token == vTokens[i]
          name(v) == IF v = 1 THEN env.vault.config1 ELSE env.vault.config2
          sharesRead == reads \o <<Read(name(token), "balance_of", 0)>>
          shares == env.shares[token]
          assetsRead ==
              sharesRead \o <<Read(name(assetsToken), "convert_to_assets", shares)>>
          balance == shares * env.rate[assetsToken]
      IN
      IF env.failAt = Len(sharesRead) THEN Thrown(sharesRead)
      ELSE IF env.failAt = Len(assetsRead) THEN Thrown(assetsRead)
      ELSE VaultLoop(vTokens, i + 1, assetsToken, env, totalBalance + balance,
                     assetsRead)

\* getVaultHoldingsByType reading the v2 token only once v2 is deployed
getVaultHoldingsByType_V2Only(blockNumber, env) ==
    LET vaultConfig1 == VESU_CONFIG.contracts[env.vault.config1]
        vaultConfig2 == VESU_CONFIG.contracts[env.vault.config2]
        isV1Deployed == isContractDeployed(blockNumber, vaultConfig1.deploymentBlock,
                                           vaultConfig1.maxBlock)
        isV2Deployed == isContractDeployed(blockNumber, vaultConfig2.deploymentBlock,
                                           NoMaxBlock)
        vTokens == IF isV2Deployed THEN <<2>> ELSE <<1>>
        assetsToken == IF isV2Deployed THEN 2 ELSE 1
    IN
    IF ~isV1Deployed /\ ~isV2Deployed THEN Returned(createZeroHoldings, <<>>)
    ELSE VaultLoop(vTokens, 1, assetsToken, env, 0, <<>>)

getVaultHoldingsByType(blockNumber, env) ==
    LET vaultConfig1 == VESU_CONFIG.contracts[env.vault.config1]
        vaultConfig2 == VESU_CONFIG.contracts[env.vault.config2]
        isV1Deployed == isContractDeployed(blockNumber, vaultConfig1.deploymentBlock,
                                           vaultConfig1.maxBlock)
        isV2Deployed == isContractDeployed(blockNumber, vaultConfig2.deploymentBlock,
                                           NoMaxBlock)
        vTokens == IF isV2Deployed THEN <<1, 2>> ELSE <<1>>
        assetsToken == IF isV2Deployed THEN 2 ELSE 1
    IN
    IF ~isV1Deployed /\ ~isV2Deployed THEN Returned(createZeroHoldings, <<>>)
    ELSE VaultLoop(vTokens, 1, assetsToken, env, 0, <<>>)

VaultBoundaries ==
    {VESU_CONFIG.contracts[c].deploymentBlock : c \in DOMAIN VESU_CONFIG.contracts}
        \cup {VESU_CONFIG.contracts[v.config1].maxBlock.n : v \in vaults}

VaultInputs == ValInputs("vesuVault", VaultBoundaries, VaultEnvs)

GetVaultHoldingsByType ==
    /\ val.kind = "vesuVault"
    /\ ~val.done
    /\ val' = [val EXCEPT
                 !.done = TRUE,
                 !.result = getVaultHoldingsByType(val.blockNumber, val.env)]
    /\ UNCHANGED <<managerVars, gate>>

----------------------------------------------------------------------------
(* VesuHoldingsService: the collateral held in the singleton *)

\* the pools array of getCollateralHoldings
pools ==
    <<[id |-> "RE7_XSTRK", debtToken |-> "STRK"],
      [id |-> "RE7_rUSDC", debtToken |-> "RUSDC"],
      [id |-> "ALTERSCOPE_XSTRK", debtToken |-> "WBTC"],
      [id |-> "ALTERSCOPE_XSTRK", debtToken |-> "ETH"],
      [id |-> "ALTERSCOPE_XSTRK", debtToken |-> "USDC"],
      [id |-> "ALTERSCOPE_XSTRK", debtToken |-> "USDT"],
      [id |-> "ALTERSCOPE_XSTRK", debtToken |-> "STRK"]>>

\* collateral[i]: position[1] of the i-th pair; unknownPool: the pair whose
\* position_unsafe fails with 'unknown-pool'; failed: the pair whose
\* position_unsafe fails with another error (0: none)
CollateralEnvs ==
    { e \in [collateral : [DOMAIN pools -> 0..MaxAmount],
             unknownPool : 0..Len(pools), failed : 0..Len(pools)] :
        /\ Cardinality({i \in DOMAIN pools : e.collateral[i] # 0}) <= MaxCollateral
        /\ e.unknownPool = e.failed => e.failed = 0 }

\* the choice of the singleton without the return for a block at which
\* neither singleton is deployed
singletonAddress_NoEarlyReturn(blockNumber) ==
    LET isV2SingletonDeployed ==
            isContractDeployed(blockNumber, VESU_CONFIG.singletonV2.deploymentBlock,
                               NoMaxBlock)
    IN
    IF isV2SingletonDeployed THEN "singletonV2" ELSE "singleton"

\* the singleton getCollateralHoldings looks positions up in, "none" when
\* it returns before the loop
singletonAddress(blockNumber) ==
    LET isSingletonDeployed ==
            isContractDeployed(blockNumber, VESU_CONFIG.singleton.deploymentBlock,
                               VESU_CONFIG.singleton.maxBlock)
        isV2SingletonDeployed ==
            isContractDeployed(blockNumber, VESU_CONFIG.singletonV2.deploymentBlock,
                               NoMaxBlock)
    IN
    IF ~isSingletonDeployed /\ ~isV2SingletonDeployed THEN "none"
    ELSE IF isV2SingletonDeployed THEN "singletonV2" ELSE "singleton"

\* the pool loop that logs an error other than 'unknown-pool' and goes on
RECURSIVE CollateralLoop(_, _, _, _, _, _)
CollateralLoop_SwallowsAll(i, singleton, blockNumber, env, totalXSTRK, reads) ==
    IF i > Len(pools)
    THEN Returned([xSTRKAmount |-> toString(totalXSTRK), STRKAmount |-> <<"0">>],
                  reads)
    ELSE
      LET pool == pools[i]
          lookup == reads \o <<Read(singleton, "position_unsafe", i)>>
      IN
      IF ~isContractDeployed(blockNumber,
                             VESU_CONFIG.pools[pool.id].deploymentBlock, NoMaxBlock)
      THEN CollateralLoop(i + 1, singleton, blockNumber, env, totalXSTRK, reads)
      ELSE IF env.unknownPool = i \/ env.failed = i
      THEN CollateralLoop(i + 1, singleton, blockNumber, env, totalXSTRK, lookup)
      ELSE CollateralLoop(i + 1, singleton, blockNumber, env,
                          totalXSTRK + env.collateral[i], lookup)

\* for (const pool of pools), from the i-th pair on
CollateralLoop(i, singleton, blockNumber, env, totalXSTRK, reads) ==
    IF i > Len(pools)
    THEN Returned([xSTRKAmount |-> toString(totalXSTRK), STRKAmount |-> <<"0">>],
                  reads)
    ELSE
      LET pool == pools[i]
          lookup == reads \o <<Read(singleton, "position_unsafe", i)>>
      IN
      IF ~isContractDeployed(blockNumber,
                             VESU_CONFIG.pools[pool.id].deploymentBlock, NoMaxBlock)
      THEN CollateralLoop(i + 1, singleton, blockNumber, env, totalXSTRK, reads)
      ELSE IF env.unknownPool = i
      THEN CollateralLoop(i + 1, singleton, blockNumber, env, totalXSTRK, lookup)
      ELSE IF env.failed = i THEN Thrown(lookup)
      ELSE CollateralLoop(i + 1, singleton, blockNumber, env,
                          totalXSTRK + env.collateral[i], lookup)

getCollateralHoldings(blockNumber, env) ==
    IF singletonAddress(blockNumber) = "none"
    THEN Returned(createZeroHoldings, <<>>)
    ELSE CollateralLoop(1, singletonAddress(blockNumber), blockNumber, env, 0, <<>>)

CollateralBoundaries ==
    {VESU_CONFIG.singleton.deploymentBlock, VESU_CONFIG.singleton.maxBlock.n,
     VESU_CONFIG.singletonV2.deploymentBlock}
        \cup {VESU_CONFIG.pools[p].deploymentBlock : p \in DOMAIN VESU_CONFIG.pools}

CollateralInputs ==
    ValInputs("vesuCollateral", CollateralBoundaries, CollateralEnvs)

GetCollateralHoldings ==
    /\ val.kind = "vesuCollateral"
    /\ ~val.done
    /\ val' = [val EXCEPT
                 !.done = TRUE,
                 !.result = getCollateralHoldings(val.blockNumber, val.env)]
    /\ UNCHANGED <<managerVars, gate>>

----------------------------------------------------------------------------
(* NostraLendingHoldingsService *)

NOSTRA_CONFIG ==
    [contracts |->
       [nXSTRK |-> [deploymentBlock |-> 968482, maxBlock |-> NoMaxBlock],
        nXSTRKC |-> [deploymentBlock |-> 968483, maxBlock |-> NoMaxBlock],
        iXSTRK |-> [deploymentBlock |-> 968483, maxBlock |-> NoMaxBlock],
        iXSTRKC |-> [deploymentBlock |-> 968484, maxBlock |-> NoMaxBlock],
        dXSTRK |-> [deploymentBlock |-> 968481, maxBlock |-> NoMaxBlock]]]

\* the vault types in the order getNostraHoldings starts their reads
NostraVaultTypes == <<"nXSTRK", "nXSTRKC", "iXSTRK", "iXSTRKC", "dXSTRK">>

\* balance[v]: what balance_of of vault v answers; failed: the vault whose
\* balance_of fails, if any
NostraEnvs ==
    [balance : [DOMAIN NOSTRA_CONFIG.contracts -> 0..MaxAmount],
     failed : {"none"} \cup DOMAIN NOSTRA_CONFIG.contracts]

\* getVaultHoldings without the deployment test
getVaultHoldings_NoGate(vaultType, blockNumber, env) ==
    LET read == <<Read(vaultType, "balance_of", 0)>> IN
    IF env.failed = vaultType THEN Thrown(read)
    ELSE Returned([xSTRKAmount |-> toString(env.balance[vaultType]),
                   STRKAmount |-> <<"0">>], read)

getVaultHoldings(vaultType, blockNumber, env) ==
    LET contractConfig == NOSTRA_CONFIG.contracts[vaultType]
        read == <<Read(vaultType, "balance_of", 0)>>
    IN
    IF ~isContractDeployed(blockNumber, contractConfig.deploymentBlock, NoMaxBlock)
    THEN Returned(createZeroHoldings, <<>>)
    ELSE IF env.failed = vaultType THEN Thrown(read)
    ELSE Returned([xSTRKAmount |-> toString(env.balance[vaultType]),
                   STRKAmount |-> <<"0">>], read)

RECURSIVE ReadsOf(_)
ReadsOf(results) ==
    IF Len(results) = 0 THEN <<>>
    ELSE results[1].reads \o ReadsOf(Tail(results))

\* getNostraHoldings that takes a failed vault as zero holdings
getNostraHoldings_IsolatesFailures(blockNumber, env) ==
    LET vaultHoldings ==
            [i \in DOMAIN NostraVaultTypes |->
               getVaultHoldings(NostraVaultTypes[i], blockNumber, env)]
        xSTRKAmount ==
            SumSeq([i \in DOMAIN vaultHoldings |->
                      BigInt(vaultHoldings[i].holdings.xSTRKAmount)])
    IN
    Returned(Holdings(xSTRKAmount, 0), ReadsOf(vaultHoldings))

\* Promise.all over the five getVaultHoldings, then the sum
getNostraHoldings(blockNumber, env) ==
    LET vaultHoldings ==
            [i \in DOMAIN NostraVaultTypes |->
               getVaultHoldings(NostraVaultTypes[i], blockNumber, env)]
        xSTRKAmount ==
            SumSeq([i \in DOMAIN vaultHoldings |->
                      BigInt(vaultHoldings[i].holdings.xSTRKAmount)])
        STRKAmount ==
            SumSeq([i \in DOMAIN vaultHoldings |->
                      BigInt(vaultHoldings[i].holdings.STRKAmount)])
    IN
    IF \E i \in DOMAIN vaultHoldings : vaultHoldings[i].outcome = "throw"
    THEN Thrown(ReadsOf(vaultHoldings))
    ELSE Returned(Holdings(xSTRKAmount, STRKAmount), ReadsOf(vaultHoldings))

NostraBoundaries ==
    {NOSTRA_CONFIG.contracts[c].deploymentBlock : c \in DOMAIN NOSTRA_CONFIG.contracts}

NostraInputs == ValInputs("nostraLending", NostraBoundaries, NostraEnvs)

GetNostraHoldings ==
    /\ val.kind = "nostraLending"
    /\ ~val.done
    /\ val' = [val EXCEPT
                 !.done = TRUE,
                 !.result = getNostraHoldings(val.blockNumber, val.env)]
    /\ UNCHANGED <<managerVars, gate>>

----------------------------------------------------------------------------
(* The valuators that read one contract: LSTHoldingsService,              *)
(* NostraDexHoldingsService, STRKFarmSenseiHoldingsService and            *)
(* STRKFarmEkuboHoldingsService.                                          *)

LST_CONFIG == [xSTRK |-> [deploymentBlock |-> 929092, maxBlock |-> NoMaxBlock]]

NOSTRA_DEX_CONFIG ==
    [contracts |-> [lpToken |-> [deploymentBlock |-> 940755, maxBlock |-> NoMaxBlock]]]

STRKFARM_CONFIG ==
    [contracts |->
       [xSTRKSensei |-> [deploymentBlock |-> 1053807, maxBlock |-> NoMaxBlock],
        ekuboXSTRKSTRK |-> [deploymentBlock |-> 1209881, maxBlock |-> NoMaxBlock]]]

LstEnvs == [balance : 0..MaxAmount, failAt : 0..1]

getXSTRKHoldings(blockNumber, env) ==
    LET read == <<Read("xSTRK", "balance_of", 0)>> IN
    IF ~isContractDeployed(blockNumber, LST_CONFIG.xSTRK.deploymentBlock, NoMaxBlock)
    THEN Returned(createZeroHoldings, <<>>)
    ELSE IF env.failAt = 1 THEN Thrown(read)
    ELSE Returned([xSTRKAmount |-> toString(env.balance), STRKAmount |-> <<"0">>],
                  read)

LpEnvs ==
    [balance : 0..MaxAmount, totalSupply : 0..MaxAmount,
     reserve0 : 0..MaxAmount, reserve1 : 0..MaxAmount, failAt : 0..3]

\* A Number (IEEE 754 double) that is zero or a positive normal value: the
\* 53 bits of its significand, most significant first, and the exponent of
\* its last bit; the value is significand * 2^exponent.
SIGNIFICAND_BITS == 53

NumberZero == [significand |-> <<>>, exponent |-> 0]

RECURSIVE Pow2(_)
Pow2(n) == IF n = 0 THEN 1 ELSE 2 * Pow2(n - 1)

\* the integer that bits[1..i] spell
RECURSIVE BitsValue(_, _)
BitsValue(bits, i) ==
    IF i = 0 THEN 0 ELSE 2 * BitsValue(bits, i - 1) + bits[i]

\* the last w bits of n
FixedBits(n, w) == [i \in 1..w |-> (n \div Pow2(w - i)) % 2]

RECURSIVE BitsOf(_)
BitsOf(n) == IF n = 0 THEN <<>> ELSE BitsOf(n \div 2) \o <<n % 2>>

\* bits + 1, of the same length, for bits that are not all ones
Increment(bits) ==
    LET j == CHOOSE i \in DOMAIN bits :
                 /\ bits[i] = 0
                 /\ \A k \in (i + 1)..Len(bits) : bits[k] = 1
    IN [i \in DOMAIN bits |-> IF i < j THEN bits[i] ELSE IF i = j THEN 1 ELSE 0]

\* round to nearest, ties to even: kept holds the first 53 bits, guard is
\* the next one, sticky says whether anything non-zero follows it
RoundToNearestEven(kept, exponent, guard, sticky) ==
    IF guard = 1 /\ (sticky \/ kept[SIGNIFICAND_BITS] = 1)
    THEN IF \A i \in DOMAIN kept : kept[i] = 1
         THEN [significand |-> <<1>> \o [i \in 1..(SIGNIFICAND_BITS - 1) |-> 0],
               exponent |-> exponent + 1]
         ELSE [significand |-> Increment(kept), exponent |-> exponent]
    ELSE [significand |-> kept, exponent |-> exponent]

\* the exponent k with b * 2^k <= a < b * 2^(k+1)
RECURSIVE QuotientExponent(_, _)
QuotientExponent(a, b) ==
    IF a >= 2 * b THEN QuotientExponent(a, 2 * b) + 1
    ELSE IF a < b THEN QuotientExponent(2 * a, b) - 1
    ELSE 0

\* the bits of a / b after the leading one, for b <= a < 2 * b: binary long
\* division; the remainder ends the sequence
RECURSIVE QuotientBits(_, _, _)
QuotientBits(r, b, n) ==
    IF n = 0 THEN <<r>>
    ELSE IF 2 * r >= b THEN <<1>> \o QuotientBits(2 * r - b, b, n - 1)
    ELSE <<0>> \o QuotientBits(2 * r, b, n - 1)

\* Number(a) / Number(b) for integers 0 <= a, 0 < b that a double holds
\* exactly
NumberDivide(a, b) ==
    IF a = 0 THEN NumberZero
    ELSE LET k == QuotientExponent(a, b)
             aa == IF k < 0 THEN a * Pow2(0 - k) ELSE a
             bb == IF k > 0 THEN b * Pow2(k) ELSE b
             q == QuotientBits(aa - bb, bb, SIGNIFICAND_BITS - 1)
             r == q[SIGNIFICAND_BITS]
             guard == IF 2 * r >= bb THEN 1 ELSE 0
         IN RoundToNearestEven(<<1>> \o SubSeq(q, 1, SIGNIFICAND_BITS - 1),
                               k - (SIGNIFICAND_BITS - 1),
                               guard, 2 * r - guard * bb # 0)

\* significand * c, as bits: the significand is multiplied in three limbs
\* of 17, 18 and 18 bits, so that no intermediate value leaves the range
\* of the integers
SignificandTimes(bits, c) ==
    LET w == 18
        limb(from, to) == BitsValue(SubSeq(bits, from, to), to - from + 1)
        low == limb(SIGNIFICAND_BITS - w + 1, SIGNIFICAND_BITS) * c
        mid == limb(SIGNIFICAND_BITS - 2 * w + 1, SIGNIFICAND_BITS - w) * c
                  + (low \div Pow2(w))
        high == limb(1, SIGNIFICAND_BITS - 2 * w) * c + (mid \div Pow2(w))
    IN BitsOf(high) \o FixedBits(mid % Pow2(w), w) \o FixedBits(low % Pow2(w), w)

\* x * Number(c) for a Number x and an integer 0 <= c that a double holds
\* exactly
NumberTimes(x, c) ==
    IF x = NumberZero \/ c = 0 THEN NumberZero
    ELSE LET p == SignificandTimes(x.significand, c)
             dropped == Len(p) - SIGNIFICAND_BITS
         IN IF dropped = 0 THEN [significand |-> p, exponent |-> x.exponent]
            ELSE RoundToNearestEven(
                     SubSeq(p, 1, SIGNIFICAND_BITS), x.exponent + dropped,
                     p[SIGNIFICAND_BITS + 1],
                     \E i \in (SIGNIFICAND_BITS + 2)..Len(p) : p[i] = 1)

\* Math.floor(x), for a Number x below 2^53
MathFloor(x) ==
    IF x = NumberZero \/ SIGNIFICAND_BITS + x.exponent <= 0 THEN 0
    ELSE BitsValue(x.significand, SIGNIFICAND_BITS + x.exponent)

\* the share computed in exact integer arithmetic
LpShare_ExactQuotient(balanceNum, totalSupplyNum, reserveNum) ==
    IF totalSupplyNum = 0 THEN 0
    ELSE (balanceNum * reserveNum) \div totalSupplyNum

\* Math.floor(totalSupplyNum === 0 ? 0
\*                : (balanceNum / totalSupplyNum) * reserveNum)
LpShare(balanceNum, totalSupplyNum, reserveNum) ==
    IF totalSupplyNum = 0 THEN 0
    ELSE MathFloor(NumberTimes(NumberDivide(balanceNum, totalSupplyNum),
                               reserveNum))

getLPHoldings(blockNumber, env) ==
    LET lpConfig == NOSTRA_DEX_CONFIG.contracts.lpToken
        reads == <<Read("lpToken", "balance_of", 0),
                   Read("lpToken", "total_supply", 0),
                   Read("lpToken", "get_reserves", 0)>>
    IN
    IF ~isContractDeployed(blockNumber, lpConfig.deploymentBlock, NoMaxBlock)
    THEN Returned(createZeroHoldings, <<>>)
    ELSE IF env.failAt # 0 THEN Thrown(FirstReads(reads, env.failAt))
    ELSE Returned(Holdings(LpShare(env.balance, env.totalSupply, env.reserve0),
                           LpShare(env.balance, env.totalSupply, env.reserve1)),
                  reads)

SenseiEnvs == [deposit2 : 0..MaxAmount, failAt : 0..1]

getSenseiHoldings(blockNumber, env) ==
    LET c == STRKFARM_CONFIG.contracts.xSTRKSensei
        read == <<Read("xSTRKSensei", "describe_position", 0)>>
    IN
    IF ~isContractDeployed(blockNumber, c.deploymentBlock, NoMaxBlock)
    THEN Returned(createZeroHoldings, <<>>)
    ELSE IF env.failAt = 1 THEN Returned(createZeroHoldings, read)
    ELSE Returned([xSTRKAmount |-> toString(env.deposit2), STRKAmount |-> <<"0">>],
                  read)

EkuboFarmEnvs ==
    [balance : 0..MaxAmount, amount0 : 0..MaxAmount, amount1 : 0..MaxAmount,
     failAt : 0..2]

\* getEkuboSTRKFarmHoldings as it would be with the try/catch of
\* getSenseiHoldings around its two calls
getEkuboSTRKFarmHoldings_CatchesLocally(blockNumber, env) ==
    LET c == STRKFARM_CONFIG.contracts.ekuboXSTRKSTRK
        reads == <<Read("ekuboXSTRKSTRK", "balanceOf", 0),
                   Read("ekuboXSTRKSTRK", "convert_to_assets", env.balance)>>
    IN
    IF ~isContractDeployed(blockNumber, c.deploymentBlock, NoMaxBlock)
    THEN Returned(createZeroHoldings, <<>>)
    ELSE IF env.failAt # 0
         THEN Returned(createZeroHoldings, FirstReads(reads, env.failAt))
    ELSE Returned(Holdings(env.amount0, env.amount1), reads)

getEkuboSTRKFarmHoldings(blockNumber, env) ==
    LET c == STRKFARM_CONFIG.contracts.ekuboXSTRKSTRK
        reads == <<Read("ekuboXSTRKSTRK", "balanceOf", 0),
                   Read("ekuboXSTRKSTRK", "convert_to_assets", env.balance)>>
    IN
    IF ~isContractDeployed(blockNumber, c.deploymentBlock, NoMaxBlock)
    THEN Returned(createZeroHoldings, <<>>)
    ELSE IF env.failAt # 0 THEN Thrown(FirstReads(reads, env.failAt))
    ELSE Returned(Holdings(env.amount0, env.amount1), reads)

SingleContractInputs ==
    ValInputs("lst", {LST_CONFIG.xSTRK.deploymentBlock}, LstEnvs)
        \cup ValInputs("nostraDex",
                       {NOSTRA_DEX_CONFIG.contracts.lpToken.deploymentBlock}, LpEnvs)
        \cup ValInputs("strkfarm",
                       {STRKFARM_CONFIG.contracts.xSTRKSensei.deploymentBlock},
                       SenseiEnvs)
        \cup ValInputs("strkfarmEkubo",
                       {STRKFARM_CONFIG.contracts.ekuboXSTRKSTRK.deploymentBlock},
                       EkuboFarmEnvs)

\* getXSTRKHoldings, getLPHoldings, getSenseiHoldings or
\* getEkuboSTRKFarmHoldings, as the valuator's kind has it
GetSingleContractHoldings ==
    /\ val.kind \in {"lst", "nostraDex", "strkfarm", "strkfarmEkubo"}
    /\ ~val.done
    /\ val' = [val EXCEPT
                 !.done = TRUE,
                 !.result =
                    CASE val.kind = "lst" ->
                           getXSTRKHoldings(val.blockNumber, val.env)
                      [] val.kind = "nostraDex" ->
                           getLPHoldings(val.blockNumber, val.env)
                      [] val.kind = "strkfarm" ->
                           getSenseiHoldings(val.blockNumber, val.env)
                      [] val.kind = "strkfarmEkubo" ->
                           getEkuboSTRKFarmHoldings(val.blockNumber, val.env)]
    /\ UNCHANGED <<managerVars, gate>>

----------------------------------------------------------------------------
(* EkuboHoldingsService, in its GraphQL and its REST variant *)

EKUBO_CONFIG == [deploymentBlock |-> 165388, maxBlock |-> NoMaxBlock]

\* one position of the index's answer: whether it has an id, what
\* get_token_info answers for it, and the amount0 of that answer
EkuboPositions ==
    [hasId : {TRUE}, answer : {"ok"}, amount0 : 0..MaxAmount]
        \cup [hasId : {TRUE}, answer : {"NOT_INITIALIZED", "error"}, amount0 : {0}]
        \cup [hasId : {FALSE}, answer : {"ok"}, amount0 : {0}]

\* fetch: how the query for the positions ends; xSTRKIsToken0: the pool key
\* of the positions (the GraphQL variant builds it with xSTRK as token0);
\* fees0, amount1, fees1: the rest of the answer of get_token_info
EkuboEnvs ==
    { e \in [variant : {"graphql", "rest"},
             fetch : {"ok", "getBlock", "query", "nodata"},
             xSTRKIsToken0 : BOOLEAN,
             positions : UNION {[1..n -> EkuboPositions] : n \in 0..MaxPositions},
             fees0 : {0, 1}, amount1 : 0..MaxAmount, fees1 : {0, 1}] :
        /\ e.variant = "graphql" => e.xSTRKIsToken0
        /\ e.variant = "rest" => e.fetch # "getBlock"
        /\ e.fetch # "ok" =>
              /\ e.positions = <<>>
              /\ e.fees0 = 0 /\ e.amount1 = 0 /\ e.fees1 = 0 }

FetchReads(env) ==
    IF env.variant = "graphql"
    THEN IF env.fetch = "getBlock" THEN <<Read("provider", "getBlock", 0)>>
         ELSE <<Read("provider", "getBlock", 0),
                Read("graphql", "getEkuboPositionsByUser", 0)>>
    ELSE <<Read("rest", "positions", 0)>>

\* the positions the loop runs over: the GraphQL variant stops when the
\* answer has no data, the REST variant takes an answer without data as []
FetchedPositions(env) == IF env.fetch = "ok" THEN env.positions ELSE <<>>

\* the position loop that gives up at an uninitialized position
RECURSIVE EkuboLoop(_, _, _, _, _, _)
EkuboLoop_StopsAtUninitialized(positions, i, env, xSTRKAmount, STRKAmount, reads) ==
    IF i > Len(positions) THEN Returned(Holdings(xSTRKAmount, STRKAmount), reads)
    ELSE
      LET position == positions[i]
          tokenInfo == reads \o <<Read("ekuboPosition", "get_token_info", i)>>
          side0 == position.amount0 + env.fees0
          side1 == env.amount1 + env.fees1
      IN
      IF ~position.hasId
      THEN EkuboLoop(positions, i + 1, env, xSTRKAmount, STRKAmount, reads)
      ELSE IF position.answer # "ok"
      THEN Returned(Holdings(xSTRKAmount, STRKAmount), tokenInfo)
      ELSE IF env.xSTRKIsToken0
      THEN EkuboLoop(positions, i + 1, env, xSTRKAmount + side0,
                     STRKAmount + side1, tokenInfo)
      ELSE EkuboLoop(positions, i + 1, env, xSTRKAmount + side1,
                     STRKAmount + side0, tokenInfo)

\* for (const position of positions), from the i-th position on, inside the
\* outer try: an error that is rethrown ends the loop in the outer catch,
\* which logs it, and the function returns what it has summed
EkuboLoop(positions, i, env, xSTRKAmount, STRKAmount, reads) ==
    IF i > Len(positions) THEN Returned(Holdings(xSTRKAmount, STRKAmount), reads)
    ELSE
      LET position == positions[i]
          tokenInfo == reads \o <<Read("ekuboPosition", "get_token_info", i)>>
          side0 == position.amount0 + env.fees0
          side1 == env.amount1 + env.fees1
      IN
      IF ~position.hasId
      THEN EkuboLoop(positions, i + 1, env, xSTRKAmount, STRKAmount, reads)
      ELSE IF position.answer = "NOT_INITIALIZED"
      THEN EkuboLoop(positions, i + 1, env, xSTRKAmount, STRKAmount, tokenInfo)
      ELSE IF position.answer = "error"
      THEN Returned(Holdings(xSTRKAmount, STRKAmount), tokenInfo)
      ELSE IF env.xSTRKIsToken0
      THEN EkuboLoop(positions, i + 1, env, xSTRKAmount + side0,
                     STRKAmount + side1, tokenInfo)
      ELSE EkuboLoop(positions, i + 1, env, xSTRKAmount + side1,
                     STRKAmount + side0, tokenInfo)

getEkuboHoldings(blockNumber, env) ==
    IF ~isContractDeployed(blockNumber, EKUBO_CONFIG.deploymentBlock, NoMaxBlock)
    THEN Returned(createZeroHoldings, <<>>)
    ELSE IF env.fetch \in {"getBlock", "query"}
    THEN Returned(Holdings(0, 0), FetchReads(env))
    ELSE IF env.fetch = "nodata" /\ env.variant = "graphql"
    THEN Returned(Holdings(0, 0), FetchReads(env))
    ELSE EkuboLoop(FetchedPositions(env), 1, env, 0, 0, FetchReads(env))

EkuboInputs == ValInputs("ekubo", {EKUBO_CONFIG.deploymentBlock}, EkuboEnvs)

GetEkuboHoldings ==
    /\ val.kind = "ekubo"
    /\ ~val.done
    /\ val' = [val EXCEPT
                 !.done = TRUE,
                 !.result = getEkuboHoldings(val.blockNumber, val.env)]
    /\ UNCHANGED <<managerVars, gate>>

----------------------------------------------------------------------------
(* LSTHoldingsService: the exchange rate. A bigint is the sequence of its  *)
(* decimal digits, since totalAssets * 10^18 has more digits than fit an   *)
(* integer of the model checker.                                           *)

MaxSupply == 3

\* the exponent of BigInt(10 ** 18)
RATE_SCALE_EXPONENT == 18

\* a bigint's digits carry no leading zero
RECURSIVE StripLeadingZeros(_)
StripLeadingZeros(s) ==
    IF Len(s) > 1 /\ s[1] = "0" THEN StripLeadingZeros(Tail(s)) ELSE s

\* bigint * BigInt(10 ** n)
BigIntTimesPowerOfTen(s, n) ==
    StripLeadingZeros(s \o [i \in 1..n |-> "0"])

\* bigint / d, the quotient truncated: long division, digit by digit
RECURSIVE BigIntDividedBy(_, _, _, _)
BigIntDividedBy(s, d, r, q) ==
    IF Len(s) = 0 THEN StripLeadingZeros(q)
    ELSE LET v == r * 10 + DigitVal(s[1]) IN
         BigIntDividedBy(Tail(s), d, v % d, q \o <<Digits[(v \div d) + 1]>>)

StringReturned(v, reads) == [outcome |-> "return", value |-> v, reads |-> reads]
StringThrown(reads) == [outcome |-> "throw", value |-> <<>>, reads |-> reads]

RateEnvs ==
    [totalAssets : 0..MaxSupply, totalSupply : 0..MaxSupply, failAt : 0..2]

getTotalAssets(blockNumber, env) ==
    IF ~isContractDeployed(blockNumber, LST_CONFIG.xSTRK.deploymentBlock, NoMaxBlock)
    THEN StringReturned(<<"0">>, <<>>)
    ELSE IF env.failAt = 1 THEN StringThrown(<<Read("xSTRK", "total_assets", 0)>>)
    ELSE StringReturned(toString(env.totalAssets),
                        <<Read("xSTRK", "total_assets", 0)>>)

getTotalSupply(blockNumber, env) ==
    IF ~isContractDeployed(blockNumber, LST_CONFIG.xSTRK.deploymentBlock, NoMaxBlock)
    THEN StringReturned(<<"0">>, <<>>)
    ELSE IF env.failAt = 2 THEN StringThrown(<<Read("xSTRK", "total_supply", 0)>>)
    ELSE StringReturned(toString(env.totalSupply),
                        <<Read("xSTRK", "total_supply", 0)>>)

\* getExchangeRate without the multiplication by BigInt(10 ** 18)
getExchangeRate_Unscaled(blockNumber, env) ==
    LET totalAssets == getTotalAssets(blockNumber, env)
        totalSupply == getTotalSupply(blockNumber, env)
    IN
    IF totalAssets.outcome = "throw" THEN totalAssets
    ELSE IF totalSupply.outcome = "throw"
         THEN StringThrown(totalAssets.reads \o totalSupply.reads)
    ELSE IF BigInt(totalSupply.value) = 0
         THEN StringReturned(<<"0">>, totalAssets.reads \o totalSupply.reads)
    ELSE StringReturned(
             BigIntDividedBy(totalAssets.value, BigInt(totalSupply.value), 0, <<>>),
             totalAssets.reads \o totalSupply.reads)

getExchangeRate(blockNumber, env) ==
    LET totalAssets == getTotalAssets(blockNumber, env)
        totalSupply == getTotalSupply(blockNumber, env)
    IN
    IF totalAssets.outcome = "throw" THEN totalAssets
    ELSE IF totalSupply.outcome = "throw"
         THEN StringThrown(totalAssets.reads \o totalSupply.reads)
    ELSE IF BigInt(totalSupply.value) = 0
         THEN StringReturned(<<"0">>, totalAssets.reads \o totalSupply.reads)
    ELSE StringReturned(
             BigIntDividedBy(
                 BigIntTimesPowerOfTen(totalAssets.value, RATE_SCALE_EXPONENT),
                 BigInt(totalSupply.value), 0, <<>>),
             totalAssets.reads \o totalSupply.reads)

RateInputs ==
    ValInputs("exchangeRate", {LST_CONFIG.xSTRK.deploymentBlock}, RateEnvs)

GetExchangeRate ==
    /\ val.kind = "exchangeRate"
    /\ ~val.done
    /\ val' = [val EXCEPT
                 !.done = TRUE,
                 !.result = getExchangeRate(val.blockNumber, val.env)]
    /\ UNCHANGED <<managerVars, gate>>

----------------------------------------------------------------------------
(* BaseHoldingsService.addHoldings, and the amounts of the arithmetic runs *)

MaxTerm == 2
TermStep == 5

\* amounts whose sums carry into a further digit
Terms == {t * TermStep : t \in 0..MaxTerm}

\* addHoldings that joins the two strings, as + does on strings
addHoldings_Concatenates(a, b) ==
    [xSTRKAmount |-> a.xSTRKAmount \o b.xSTRKAmount,
     STRKAmount |-> a.STRKAmount \o b.STRKAmount]

addHoldings(a, b) ==
    [xSTRKAmount |-> toString(BigInt(a.xSTRKAmount) + BigInt(b.xSTRKAmount)),
     STRKAmount |-> toString(BigInt(a.STRKAmount) + BigInt(b.STRKAmount))]

\* the holdings a valuator returns: both amounts printed by toString
HoldingsValues == {Holdings(x, s) : x \in Terms, s \in Terms}

AddInputs ==
    [kind : {"addHoldings"}, blockNumber : {Undefined},
     env : [a : HoldingsValues, b : HoldingsValues, c : HoldingsValues],
     done : {FALSE}, result : {NotRun}]

AddHoldings ==
    /\ val.kind = "addHoldings"
    /\ ~val.done
    /\ val' = [val EXCEPT
                 !.done = TRUE,
                 !.result = Returned(addHoldings(val.env.a, val.env.b), <<>>)]
    /\ UNCHANGED <<managerVars, gate>>

\* balances, supplies and reserves of the pool among which the quotient
\* balance / totalSupply is and is not a double
LpAmounts == {0, 1, 49, 50, 100, 1000, 2000}

\* an account holds no more LP tokens than there are
LpShareEnvs ==
    {e \in [balance : LpAmounts, totalSupply : LpAmounts,
            reserve0 : LpAmounts, reserve1 : LpAmounts, failAt : {0}] :
        e.balance <= e.totalSupply}

LpShareInputs ==
    ValInputs("nostraDex", {NOSTRA_DEX_CONFIG.contracts.lpToken.deploymentBlock},
              LpShareEnvs)

----------------------------------------------------------------------------
(* HoldingsManager.getMultiProtocolHoldings *)

MAX_RETRIES == 1

NoOutcome == [kind |-> "none", success |-> FALSE, io |-> 0]
Outcome(r) == [kind |-> r.kind, success |-> r.success /\ r.hasData, io |-> r.io]

\* obj[key] = value of a JavaScript object
SetEntry(obj, key, value) ==
    [x \in DOMAIN obj \cup {key} |-> IF x = key THEN value ELSE obj[x]]

\* the record literal byProtocol starts from; this variant has a key for
\* the requested protocols only
InitialByProtocol_RequestedOnly(protos) ==
    [k \in protos |-> createZeroHoldings]

InitialByProtocol(protos) ==
    [k \in ProtocolType |-> createZeroHoldings]

\* an update that stores the response data and loses what total held
AddToTotal_Overwrites(t, data) ==
    [xSTRKAmount |-> toString(BigInt(data.xSTRKAmount)),
     STRKAmount |-> toString(BigInt(data.STRKAmount))]

\* total.xSTRKAmount / total.STRKAmount after adding the response data
AddToTotal(t, data) ==
    [xSTRKAmount |-> toString(BigInt(t.xSTRKAmount) + BigInt(data.xSTRKAmount)),
     STRKAmount |-> toString(BigInt(t.STRKAmount) + BigInt(data.STRKAmount))]

WithinTotalBound(t) ==
    /\ BigInt(t.xSTRKAmount) <= MaxTotal
    /\ BigInt(t.STRKAmount) <= MaxTotal

\* The call itself: the locals are created and protocols.map starts one task
\* per protocol; each task runs up to its first await, which is the first
\* getProtocolHoldings of its loop.
GetMultiProtocolHoldings(req, protos) ==
    /\ phase = "idle"
    /\ phase' = "running"
    /\ request' = req
    /\ protocols' = protos
    /\ byProtocol' = InitialByProtocol(protos)
    /\ total' = createZeroHoldings
    /\ retry' = [k \in ProtocolType |-> 0]
    /\ pc' = [k \in ProtocolType |->
                IF k \in protos
                THEN (IF 0 < MAX_RETRIES THEN "awaiting" ELSE "fulfilled")
                ELSE "none"]
    /\ calls' = [k \in ProtocolType |->
                   IF k \in protos /\ 0 < MAX_RETRIES THEN 1 ELSE 0]
    /\ last' = [k \in ProtocolType |-> NoOutcome]
    /\ lap' = [k \in ProtocolType |-> 0]
    /\ UNCHANGED <<services, manager, gate, val, sdk>>

\* The pending getProtocolHoldings of task k settles and the task runs to its
\* next await: the try body or the catch block, then the loop condition and,
\* if the loop goes on, the next getProtocolHoldings (after the backoff
\* delay when the catch block asked for one).
Settle(k) ==
    /\ pc[k] = "awaiting"
    /\ \E env \in Envs(k) :
         LET r == getProtocolHoldings(services, k, request, env)
             added == AddToTotal(total, r.data)
             retryAfter == IF r.kind = "throw" THEN retry[k] + 1 ELSE retry[k]
             rethrown == r.kind = "throw" /\ ~(retryAfter < MAX_RETRIES)
         IN
         /\ (r.kind = "response" /\ r.success /\ r.hasData)
                => WithinTotalBound(added)
         /\ last' = [last EXCEPT ![k] = Outcome(r)]
         /\ lap' = [lap EXCEPT ![k] = 1 - lap[k]]
         /\ retry' = [retry EXCEPT ![k] = retryAfter]
         /\ IF r.kind = "throw"
            THEN UNCHANGED <<byProtocol, total>>
            ELSE IF r.success /\ r.hasData
            THEN /\ byProtocol' = SetEntry(byProtocol, k, r.data)
                 /\ total' = added
            ELSE /\ byProtocol' = SetEntry(byProtocol, k, createZeroHoldings)
                 /\ UNCHANGED total
         /\ IF rethrown
            THEN /\ pc' = [pc EXCEPT ![k] = "rejected"]
                 /\ UNCHANGED calls
            ELSE IF retryAfter < MAX_RETRIES
            THEN /\ pc' = [pc EXCEPT ![k] = "awaiting"]
                 /\ calls' = [calls EXCEPT ![k] = Min(calls[k] + 1, MaxCalls)]
            ELSE /\ pc' = [pc EXCEPT ![k] = "fulfilled"]
                 /\ UNCHANGED calls
    /\ UNCHANGED <<services, manager, phase, protocols, request, gate, val, sdk>>

\* await Promise.all(promises): rejected as soon as one task has rejected,
\* fulfilled once every task is fulfilled; the other tasks keep running.
AwaitAll ==
    /\ phase = "running"
    /\ \/ \E k \in protocols : pc[k] = "rejected"
       \/ \A k \in protocols : pc[k] = "fulfilled"
    /\ phase' = IF \E k \in protocols : pc[k] = "rejected"
                THEN "rejected" ELSE "resolved"
    /\ UNCHANGED <<services, manager, protocols, request, byProtocol, total, pc,
                   retry, calls, last, lap, gate, val, sdk>>

----------------------------------------------------------------------------
(* HoldingsManager.setProvider and HoldingsManager.updateNetwork *)

MaxUpdates == 2     \* updateNetwork calls on one manager

\* the provider argument of setProvider
ProviderArgs == Providers \cup {"rpc2"}

\* setProvider that leaves the valuators alone
setProvider_ManagerOnly(svcs, provider) == svcs

\* services.forEach(service => service.setProvider(provider))
setProvider(svcs, provider) ==
    [k \in DOMAIN svcs |-> [svcs[k] EXCEPT !.provider = provider]]

\* what HoldingsManager.setProvider does to the manager and its valuators
ManagerSetProvider(provider) ==
    /\ manager' = [manager EXCEPT
                     !.provider = provider,
                     !.call = [name |-> "setProvider", arg |-> provider,
                               before |-> services]]
    /\ services' = setProvider(services, provider)

SetProvider(provider) ==
    /\ ManagerSetProvider(provider)
    /\ UNCHANGED <<phase, protocols, request, byProtocol, total, pc, retry,
                   calls, last, lap, gate, val, sdk>>

\* what HoldingsManager.updateNetwork does to the manager and its valuators
ManagerUpdateNetwork(network) ==
    /\ manager.constructed < MaxUpdates
    /\ manager' = [manager EXCEPT
                     !.network = network,
                     !.constructed = manager.constructed + 1,
                     !.call = [name |-> "updateNetwork", arg |-> network,
                               before |-> services]]
    /\ LET fresh == NewServices(manager.sdkConfig, manager.constructed + 1) IN
       services' = IF manager.provider # NoProvider
                   THEN setProvider(fresh, manager.provider)
                   ELSE fresh

UpdateNetwork(network) ==
    /\ ManagerUpdateNetwork(network)
    /\ UNCHANGED <<phase, protocols, request, byProtocol, total, pc, retry,
                   calls, last, lap, gate, val, sdk>>

----------------------------------------------------------------------------
(* EndurSDK *)

\* a key that a Partial<SDKConfig> does not have
NoNetwork == "undefined"

\* the fields of an EndurSDK: its configuration, the StarknetService, and
\* how many times api, starknet and lst have been constructed
NewSdk(options) ==
    [config |-> [network |-> options.config.network],
     starknet |-> [provider |-> options.provider,
                   network |-> options.config.network],
     built |-> 1,
     call |-> NoCall]

\* a HoldingsManager that no EndurSDK owns
NoSdk ==
    [config |-> [network |-> NoNetwork],
     starknet |-> [provider |-> NoProvider, network |-> NoNetwork],
     built |-> 0,
     call |-> NoCall]

\* EndurSDK.updateConfig: the configuration is merged first and the test
\* for a changed network reads the merged configuration
UpdateConfig(newConfig) ==
    LET merged == IF newConfig.network = NoNetwork THEN sdk.config
                  ELSE [sdk.config EXCEPT !.network = newConfig.network]
        changed == /\ newConfig.network # NoNetwork
                   /\ newConfig.network # merged.network
        before == [network |-> sdk.config.network, built |-> sdk.built,
                   constructed |-> manager.constructed]
        called == [name |-> "updateConfig", arg |-> newConfig.network,
                   before |-> before]
    IN
    /\ IF changed
       THEN /\ sdk' = [sdk EXCEPT
                         !.config = merged,
                         !.starknet.network = merged.network,
                         !.built = sdk.built + 1,
                         !.call = called]
            /\ ManagerUpdateNetwork(merged.network)
       ELSE /\ sdk' = [sdk EXCEPT !.config = merged, !.call = called]
            /\ UNCHANGED <<manager, services>>
    /\ UNCHANGED <<phase, protocols, request, byProtocol, total, pc, retry,
                   calls, last, lap, gate, val>>

\* EndurSDK.setProvider
SdkSetProvider(provider) ==
    /\ sdk' = [sdk EXCEPT
                 !.starknet.provider = provider,
                 !.call = [name |-> "setProvider", arg |-> provider,
                           before |-> << >>]]
    /\ ManagerSetProvider(provider)
    /\ UNCHANGED <<phase, protocols, request, byProtocol, total, pc, retry,
                   calls, last, lap, gate, val>>

----------------------------------------------------------------------------
(* getHoldings of a registered valuator, with the provider each read goes  *)
(* through                                                                 *)

\* the valuators whose getHoldings is one of the functions modelled above
RegisteredKinds == {"lst", "ekubo", "nostraDex", "strkfarm", "strkfarmEkubo"}

\* new Contract(abi, address, this.provider) for the calls of a contract;
\* this.sdkConfig.provider.getBlock(...) for the block of the Ekubo query
ReadProvider(service, sdkConfig, read) ==
    IF read.contract = "provider" THEN sdkConfig.provider ELSE service.provider

\* the body of getHoldings once validateProvider and validateAddress passed;
\* getBlock of a provider that is unset throws
RegisteredBody(k, sdkConfig, blockNumber, env) ==
    CASE k = "lst" -> getXSTRKHoldings(blockNumber, env)
      [] k = "ekubo" ->
           getEkuboHoldings(blockNumber,
                            IF sdkConfig.provider = NoProvider
                            THEN [env EXCEPT !.fetch = "getBlock"]
                            ELSE env)
      [] k = "nostraDex" -> getLPHoldings(blockNumber, env)
      [] k = "strkfarm" -> getSenseiHoldings(blockNumber, env)
      [] k = "strkfarmEkubo" -> getEkuboSTRKFarmHoldings(blockNumber, env)

\* the runs of the registered valuators: the Ekubo valuator the manager
\* imports is the GraphQL one
RegisteredInputs ==
    {v \in EkuboInputs \cup SingleContractInputs :
        /\ v.blockNumber \in {Latest, Num(0)}
        /\ v.kind = "ekubo" =>
              /\ v.env.variant = "graphql"
              /\ Len(v.env.positions) <= 1
              /\ v.env.fees0 = 0 /\ v.env.amount1 = 0 /\ v.env.fees1 = 0
        /\ v.kind # "ekubo" => v.env.failAt = 0
        /\ v.kind = "nostraDex" =>
              (v.env.reserve0 = 0 /\ v.env.reserve1 = 0)}

\* service.getHoldings(request) of the valuator registered under val.kind,
\* for a request with a valid address; the run keeps the provider of each
\* read and the registry call that preceded it
ServiceGetHoldings ==
    /\ val.kind \in RegisteredKinds
    /\ ~val.done
    /\ LET service == services[val.kind]
           result == IF ~validateProvider(service.provider) THEN Thrown(<<>>)
                     ELSE RegisteredBody(val.kind, manager.sdkConfig,
                                         val.blockNumber, val.env)
       IN val' = [kind |-> val.kind, blockNumber |-> val.blockNumber,
                  env |-> val.env, done |-> TRUE, result |-> result,
                  through |-> [i \in DOMAIN result.reads |->
                                 ReadProvider(service, manager.sdkConfig,
                                              result.reads[i])],
                  after |-> [name |-> manager.call.name, arg |-> manager.call.arg]]
    /\ UNCHANGED <<managerVars, gate>>

\* HoldingsManager.getAvailableProtocols: the type of each ProtocolInfo of
\* the list it returns
getAvailableProtocols ==
    <<"lst", "ekubo", "nostraLending", "nostraDex", "opus", "strkfarm", "vesu">>

\* the default of the protocols parameter of getMultiProtocolHoldings
DefaultProtocols ==
    <<"lst", "ekubo", "nostraLending", "nostraDex", "opus", "strkfarm",
      "strkfarmEkubo", "vesu">>

Requests == [address : Addresses]

ProtocolLists == {ps \in SUBSET ProtocolType : Cardinality(ps) <= MaxProtocols}

Init ==
    /\ \E p \in Providers :
          /\ services = NewServices(SDKOptions("mainnet", p), 0)
          /\ manager = NewManager(SDKOptions("mainnet", p))
    /\ phase = "idle"
    /\ protocols = {}
    /\ request = [address |-> Str(<<>>)]
    /\ byProtocol = << >>
    /\ total = createZeroHoldings
    /\ pc = [k \in ProtocolType |-> "none"]
    /\ retry = [k \in ProtocolType |-> 0]
    /\ calls = [k \in ProtocolType |-> 0]
    /\ last = [k \in ProtocolType |-> NoOutcome]
    /\ lap = [k \in ProtocolType |-> 0]
    /\ gate = GateIdle
    /\ sdk = NoSdk
    /\ val = ValIdle

Next ==
    \/ \E req \in Requests, protos \in ProtocolLists :
           GetMultiProtocolHoldings(req, protos)
    \/ \E k \in ProtocolType : Settle(k)
    \/ AwaitAll

Spec == Init /\ [][Next]_vars

\* Every ready continuation of the event loop runs, and every pending
\* getHoldings settles.
FairSpec ==
    /\ Spec
    /\ WF_vars(AwaitAll)
    /\ \A k \in ProtocolType : WF_vars(Settle(k))

\* isContractDeployed on its own, over every input of the bounded ranges
InitGate ==
    /\ services = NewServices(SDKOptions("mainnet", "rpc"), 0)
    /\ manager = NewManager(SDKOptions("mainnet", "rpc"))
    /\ phase = "idle"
    /\ protocols = {}
    /\ request = [address |-> Str(<<>>)]
    /\ byProtocol = << >>
    /\ total = createZeroHoldings
    /\ pc = [k \in ProtocolType |-> "none"]
    /\ retry = [k \in ProtocolType |-> 0]
    /\ calls = [k \in ProtocolType |-> 0]
    /\ last = [k \in ProtocolType |-> NoOutcome]
    /\ lap = [k \in ProtocolType |-> 0]
    /\ gate \in GateInputs
    /\ sdk = NoSdk
    /\ val = ValIdle

NextGate == IsContractDeployedCall

SpecGate == InitGate /\ [][NextGate]_vars

\* the valuators' holdings computations on their own, over every queried
\* block and environment of the bounded ranges
InitValuators ==
    /\ services = NewServices(SDKOptions("mainnet", "rpc"), 0)
    /\ manager = NewManager(SDKOptions("mainnet", "rpc"))
    /\ phase = "idle"
    /\ protocols = {}
    /\ request = [address |-> Str(<<>>)]
    /\ byProtocol = << >>
    /\ total = createZeroHoldings
    /\ pc = [k \in ProtocolType |-> "none"]
    /\ retry = [k \in ProtocolType |-> 0]
    /\ calls = [k \in ProtocolType |-> 0]
    /\ last = [k \in ProtocolType |-> NoOutcome]
    /\ lap = [k \in ProtocolType |-> 0]
    /\ gate = GateIdle
    /\ sdk = NoSdk
    /\ \/ val \in OpusInputs
       \/ val \in VaultInputs
       \/ val \in NostraInputs
       \/ val \in SingleContractInputs
       \/ val \in EkuboInputs
       \/ val \in CollateralInputs

NextValuators ==
    \/ GetOpusHoldings
    \/ GetVaultHoldingsByType
    \/ GetNostraHoldings
    \/ GetSingleContractHoldings
    \/ GetEkuboHoldings
    \/ GetCollateralHoldings

SpecValuators == InitValuators /\ [][NextValuators]_vars

\* a manager built from any configuration, and the calls that change its
\* registry of valuators
InitRegistry ==
    /\ \E n \in Networks, p \in Providers :
          /\ services = NewServices(SDKOptions(n, p), 0)
          /\ manager = NewManager(SDKOptions(n, p))
    /\ phase = "idle"
    /\ protocols = {}
    /\ request = [address |-> Str(<<>>)]
    /\ byProtocol = << >>
    /\ total = createZeroHoldings
    /\ pc = [k \in ProtocolType |-> "none"]
    /\ retry = [k \in ProtocolType |-> 0]
    /\ calls = [k \in ProtocolType |-> 0]
    /\ last = [k \in ProtocolType |-> NoOutcome]
    /\ lap = [k \in ProtocolType |-> 0]
    /\ gate = GateIdle
    /\ sdk = NoSdk
    /\ val = ValIdle

NextRegistry ==
    \/ \E p \in ProviderArgs : SetProvider(p)
    \/ \E n \in Networks : UpdateNetwork(n)

SpecRegistry == InitRegistry /\ [][NextRegistry]_vars

\* the arithmetic of the valuators, run on amounts of several digits
InitArithmetic ==
    /\ services = NewServices(SDKOptions("mainnet", "rpc"), 0)
    /\ manager = NewManager(SDKOptions("mainnet", "rpc"))
    /\ phase = "idle"
    /\ protocols = {}
    /\ request = [address |-> Str(<<>>)]
    /\ byProtocol = << >>
    /\ total = createZeroHoldings
    /\ pc = [k \in ProtocolType |-> "none"]
    /\ retry = [k \in ProtocolType |-> 0]
    /\ calls = [k \in ProtocolType |-> 0]
    /\ last = [k \in ProtocolType |-> NoOutcome]
    /\ lap = [k \in ProtocolType |-> 0]
    /\ gate = GateIdle
    /\ sdk = NoSdk
    /\ \/ val \in RateInputs
       \/ val \in LpShareInputs
       \/ val \in AddInputs

NextArithmetic ==
    \/ GetExchangeRate
    \/ GetSingleContractHoldings
    \/ AddHoldings

SpecArithmetic == InitArithmetic /\ [][NextArithmetic]_vars

\* a manager whose provider is swapped and whose valuators are then run
InitProviderReads ==
    /\ \E p \in Providers :
          /\ services = NewServices(SDKOptions("mainnet", p), 0)
          /\ manager = NewManager(SDKOptions("mainnet", p))
    /\ phase = "idle"
    /\ protocols = {}
    /\ request = [address |-> Str(<<>>)]
    /\ byProtocol = << >>
    /\ total = createZeroHoldings
    /\ pc = [k \in ProtocolType |-> "none"]
    /\ retry = [k \in ProtocolType |-> 0]
    /\ calls = [k \in ProtocolType |-> 0]
    /\ last = [k \in ProtocolType |-> NoOutcome]
    /\ lap = [k \in ProtocolType |-> 0]
    /\ gate = GateIdle
    /\ sdk = NoSdk
    /\ val \in RegisteredInputs

NextProviderReads ==
    \/ \E p \in ProviderArgs : SetProvider(p)
    \/ \E n \in Networks : UpdateNetwork(n)
    \/ ServiceGetHoldings

SpecProviderReads == InitProviderReads /\ [][NextProviderReads]_vars

\* an EndurSDK whose configuration and provider are updated
InitSdk ==
    /\ \E n \in {"mainnet", "testnet"}, p \in Providers :
          /\ sdk = NewSdk(SDKOptions(n, p))
          /\ services = NewServices(SDKOptions(n, p), 0)
          /\ manager = NewManager(SDKOptions(n, p))
    /\ phase = "idle"
    /\ protocols = {}
    /\ request = [address |-> Str(<<>>)]
    /\ byProtocol = << >>
    /\ total = createZeroHoldings
    /\ pc = [k \in ProtocolType |-> "none"]
    /\ retry = [k \in ProtocolType |-> 0]
    /\ calls = [k \in ProtocolType |-> 0]
    /\ last = [k \in ProtocolType |-> NoOutcome]
    /\ lap = [k \in ProtocolType |-> 0]
    /\ gate = GateIdle
    /\ val = ValIdle

NextSdk ==
    \/ \E network \in Networks \cup {NoNetwork} :
           UpdateConfig([network |-> network])
    \/ \E p \in ProviderArgs : SdkSetProvider(p)

SpecSdk == InitSdk /\ [][NextSdk]_vars

----------------------------------------------------------------------------
(* Properties of the fan-out *)

RECURSIVE SumOver(_, _)
SumOver(S, f) ==
    IF S = {} THEN 0
    ELSE LET k == CHOOSE e \in S : TRUE IN f[k] + SumOver(S \ {k}, f)

Succeeded(k) == last[k].kind = "response" /\ last[k].success
Failed(k) == last[k].kind = "throw" \/ (last[k].kind = "response" /\ ~last[k].success)

\* what protocol k stands for in the sum: its latest holdings if its latest
\* getHoldings succeeded, nothing otherwise
ContributionX == [k \in ProtocolType |->
                    IF Succeeded(k) THEN BigInt(byProtocol[k].xSTRKAmount) ELSE 0]
ContributionS == [k \in ProtocolType |->
                    IF Succeeded(k) THEN BigInt(byProtocol[k].STRKAmount) ELSE 0]

\* a well-formed account address begins with 0x
BeginsWith0x(a) ==
    /\ a.type = "string"
    /\ Len(a.chars) >= 2
    /\ a.chars[1] = "0"
    /\ a.chars[2] = "x"

\* C1: when the getHoldings of a requested protocol throws, the aggregation
\* call does not reject, and every requested protocol whose getHoldings
\* succeeded is counted in total.
C1_PartialFailureIsolation ==
    \A p \in protocols :
        last[p].kind = "throw" =>
            /\ phase # "rejected"
            /\ \A q \in protocols \ {p} :
                   Succeeded(q) =>
                       BigInt(total.xSTRKAmount) >= BigInt(byProtocol[q].xSTRKAmount)

\* C2: a call whose getHoldings invocations all complete eventually returns
\* to its caller.
C2_FanOutTerminates ==
    (phase = "running") ~> (phase \in {"resolved", "rejected"})

\* C3: once every requested protocol has answered, total is the exact sum of
\* the holdings of the protocols that succeeded; the others contribute zero.
C3_TotalIsExactSum ==
    (phase # "idle" /\ \A k \in protocols : last[k].kind # "none") =>
        /\ BigInt(total.xSTRKAmount) = SumOver(protocols, ContributionX)
        /\ BigInt(total.STRKAmount) = SumOver(protocols, ContributionS)

\* C4 as stated: the keys of byProtocol are exactly the requested protocols.
C4_KeysAreRequestedSet ==
    phase # "idle" => DOMAIN byProtocol = protocols

\* C4: byProtocol has a key for every requested protocol; its keys are the
\* eight registered protocol ids, whatever was requested and whatever
\* failed, and an unrequested protocol is present with zero holdings.
C4_KeysAreRegisteredSet ==
    phase # "idle" =>
        /\ protocols \subseteq DOMAIN byProtocol
        /\ DOMAIN byProtocol = ProtocolType
        /\ \A k \in ProtocolType \ protocols : byProtocol[k] = createZeroHoldings

C4_Witness ==
    /\ phase = "rejected"
    /\ protocols # ProtocolType
    /\ \E k \in protocols : last[k].kind = "throw"
    /\ \E k \in protocols : Failed(k) /\ last[k].kind = "response"

\* C5: total never exceeds the sum of the holdings the requested protocols
\* returned, i.e. no protocol's holdings are added twice.
C5_NoDoubleCounting ==
    phase # "idle" =>
        /\ BigInt(total.xSTRKAmount) <= SumOver(protocols, ContributionX)
        /\ BigInt(total.STRKAmount) <= SumOver(protocols, ContributionS)

\* C6: a getHoldings that throws is invoked exactly once more; when the task
\* gives up the call does not fail; a success=false response is not retried.
C6_RetryPolicy ==
    \A k \in protocols :
        /\ (last[k].kind = "throw" /\ pc[k] # "awaiting") => calls[k] = 2
        /\ pc[k] # "rejected"
        /\ (last[k].kind = "response" /\ ~last[k].success) => pc[k] # "awaiting"

\* C9: with no provider or a malformed address, getHoldings of every
\* valuator answers success=false with an error and does not throw.
C9_ValidationErrorsAreValues ==
    \A k \in protocols :
        (/\ last[k].kind # "none"
         /\ \/ services[k].provider = NoProvider
            \/ ~BeginsWith0x(request.address))
        => (last[k].kind = "response" /\ ~last[k].success)

\* C10: when request.address does not begin with 0x, is empty or is not a
\* string, getHoldings has issued no chain, GraphQL or REST call when it
\* rejects the request.
C10_ValidationPrecedesIO ==
    \A k \in protocols :
        (last[k].kind # "none" /\ ~BeginsWith0x(request.address))
        => (Failed(k) /\ last[k].io = 0)

C10_Witness ==
    /\ \A k \in ProtocolType : services[k].provider # NoProvider
    /\ ~BeginsWith0x(request.address)
    /\ request.address.type = "string"
    /\ request.address.chars # <<>>
    /\ \E k \in protocols : last[k].kind = "throw" /\ last[k].io = 0
    /\ \E k \in protocols : last[k].kind = "response" /\ last[k].io = 0

----------------------------------------------------------------------------
(* Properties of the deployment-window gate *)

\* C7: with D <= R and an integer block b >= 0 the gate is open exactly when
\* D <= b <= R, and closed at latest and pending; without a retirement
\* block it is open at latest and pending and, at block b, exactly when
\* b >= D.
C7_GateCorrectness ==
    gate.evaluated =>
        LET b == gate.blockNumber
            D == gate.deploymentBlock
            R == gate.maxBlock
        IN
        /\ (R.defined /\ D <= R.n /\ b.t = "number")
               => (gate.result <=> (D <= b.n /\ b.n <= R.n))
        /\ (R.defined /\ D <= R.n /\ b \in {Latest, Pending})
               => ~gate.result
        /\ (~R.defined /\ b \in {Latest, Pending}) => gate.result
        /\ (~R.defined /\ b.t = "number") => (gate.result <=> b.n >= D)

AbsentOrNotInteger(b) == b.t \in {"undefined", "null"} \/ b.s = "0x"

----------------------------------------------------------------------------
(* Properties of the valuators' reads *)

\* the deployment window the configuration gives to a contract
WindowOf(contract) ==
    CASE contract = "opus" -> OPUS_CONFIG.contract
      [] contract = "xSTRK" -> LST_CONFIG.xSTRK
      [] contract = "ekuboPosition" -> EKUBO_CONFIG
      [] contract \in {"singleton", "singletonV2"} -> VESU_CONFIG[contract]
      [] contract = "lpToken" -> NOSTRA_DEX_CONFIG.contracts.lpToken
      [] contract \in DOMAIN NOSTRA_CONFIG.contracts ->
             NOSTRA_CONFIG.contracts[contract]
      [] contract \in DOMAIN STRKFARM_CONFIG.contracts ->
             STRKFARM_CONFIG.contracts[contract]
      [] contract \in DOMAIN VESU_CONFIG.contracts ->
             VESU_CONFIG.contracts[contract]

Queryable(contract, blockNumber) ==
    LET w == WindowOf(contract) IN
    isContractDeployed(blockNumber, w.deploymentBlock, w.maxBlock)

\* the contracts read; the provider's getBlock and the queries to the
\* GraphQL and REST indexes are not reads of a contract
ReadContracts ==
    {val.result.reads[i].contract : i \in DOMAIN val.result.reads}
        \ {"provider", "graphql", "rest"}

\* C11 as stated: a valuator issues no read against a contract whose
\* deployment window is closed at the queried block.
C11_NoReadOutsideWindow ==
    val.done => \A c \in ReadContracts : Queryable(c, val.blockNumber)

\* C11: a valuator issues no read against a contract whose deployment window
\* is closed at the queried block, except that a Vesu vault slot reads its v1
\* token whenever its v2 token is queryable; a run that has no queryable
\* contract issues no read and returns zero holdings.
C11_NoReadOutsideWindowButVaultV1 ==
    val.done =>
        /\ \A c \in ReadContracts :
              \/ Queryable(c, val.blockNumber)
              \/ \E v \in vaults :
                    /\ c = v.config1
                    /\ Queryable(v.config2, val.blockNumber)
        /\ val.result.reads = <<>> =>
              /\ val.result.outcome = "return"
              /\ val.result.holdings = createZeroHoldings

C11_Witness ==
    /\ val.done
    /\ val.kind = "vesuVault"
    /\ val.blockNumber = Latest
    /\ ~Queryable(val.env.vault.config1, val.blockNumber)
    /\ val.env.vault.config1 \in ReadContracts
    /\ val.env.vault.config2 \in ReadContracts
    /\ val.result.outcome = "return"

----------------------------------------------------------------------------
(* Properties of the registry *)

InstancesOf(svcs) == {svcs[k].instance : k \in DOMAIN svcs}

\* C12: after updateNetwork(n) every protocol id is registered with a
\* freshly constructed valuator, none of the former instances is left, and
\* every valuator's configuration is the table of network n.
C12_UpdateNetworkRebuilds ==
    (manager.call.name = "updateNetwork"
        /\ manager.call.arg \in {"mainnet", "testnet"})
    => /\ DOMAIN services = DOMAIN manager.call.before
       /\ InstancesOf(services) \cap InstancesOf(manager.call.before) = {}
       /\ \A k \in DOMAIN services : services[k].config = manager.call.arg

\* C13: after setProvider(p) every registered valuator has provider p, and
\* the registered ids and the instances registered under them are the ones
\* of before the call.
C13_SetProviderReachesAll ==
    manager.call.name = "setProvider" =>
        /\ \A k \in DOMAIN services : services[k].provider = manager.call.arg
        /\ DOMAIN services = DOMAIN manager.call.before
        /\ \A k \in DOMAIN services :
              /\ services[k].instance = manager.call.before[k].instance
              /\ services[k].config = manager.call.before[k].config

C13_Witness ==
    /\ manager.call.name = "setProvider"
    /\ manager.call.arg = "rpc2"
    /\ manager.constructed > 0
    /\ \A k \in ProtocolType : manager.call.before[k].provider = "rpc"
    /\ \A k \in ProtocolType : services[k].provider = "rpc2"

----------------------------------------------------------------------------
(* Properties of the Ekubo position loop *)

\* a run of getEkuboHoldings whose gate was open and whose query for the
\* positions was answered
EkuboLoopRan ==
    /\ val.done
    /\ val.kind = "ekubo"
    /\ val.result.reads # <<>>
    /\ val.env.fetch = "ok"

\* the positions whose get_token_info fails with another error than
\* NOT_INITIALIZED
ErrorPositions ==
    {i \in DOMAIN val.env.positions :
        val.env.positions[i].hasId /\ val.env.positions[i].answer = "error"}

\* the first of them, or the length of the list plus one
FirstErrorPosition ==
    IF ErrorPositions = {} THEN Len(val.env.positions) + 1
    ELSE CHOOSE i \in ErrorPositions : \A j \in ErrorPositions : i <= j

TokenInfoReads ==
    {val.result.reads[i].arg :
        i \in {j \in DOMAIN val.result.reads :
                 val.result.reads[j].entrypoint = "get_token_info"}}

\* amount0 + fees0 and amount1 + fees1 of the positions in S that answer
Side0(S) ==
    SumSeq([i \in DOMAIN val.env.positions |->
              IF i \in S /\ val.env.positions[i].hasId
                         /\ val.env.positions[i].answer = "ok"
              THEN val.env.positions[i].amount0 + val.env.fees0 ELSE 0])
Side1(S) ==
    SumSeq([i \in DOMAIN val.env.positions |->
              IF i \in S /\ val.env.positions[i].hasId
                         /\ val.env.positions[i].answer = "ok"
              THEN val.env.amount1 + val.env.fees1 ELSE 0])

\* C14: when a get_token_info fails with an error that is not
\* NOT_INITIALIZED, the loop stops there and getEkuboHoldings returns zero
\* holdings ('0', '0') without throwing.
C14_ErrorGivesZeroHoldings ==
    (EkuboLoopRan /\ ErrorPositions # {}) =>
        /\ val.result.outcome = "return"
        /\ val.result.holdings = createZeroHoldings
        /\ \A i \in TokenInfoReads : i <= FirstErrorPosition

\* C15: a position whose get_token_info fails with NOT_INITIALIZED adds
\* nothing and does not stop the loop: every position with an id is looked
\* up, and every position that answers, before or after it, adds its
\* amount0 + fees0 and its amount1 + fees1 to the result (up to the first
\* failure of another kind, if there is one).
C15_SkipAndContinue ==
    EkuboLoopRan =>
        LET counted == 1..(FirstErrorPosition - 1)
            lookedUp == {i \in DOMAIN val.env.positions :
                           i <= FirstErrorPosition /\ val.env.positions[i].hasId}
        IN
        /\ val.result.outcome = "return"
        /\ TokenInfoReads = lookedUp
        /\ val.result.holdings =
              IF val.env.xSTRKIsToken0
              THEN Holdings(Side0(counted), Side1(counted))
              ELSE Holdings(Side1(counted), Side0(counted))

C15_Witness ==
    /\ EkuboLoopRan
    /\ Len(val.env.positions) = 2
    /\ val.env.positions[1].hasId
    /\ val.env.positions[1].answer = "NOT_INITIALIZED"
    /\ val.env.positions[2].hasId
    /\ val.env.positions[2].answer = "ok"
    /\ val.env.positions[2].amount0 = 1
    /\ val.env.xSTRKIsToken0
    /\ TokenInfoReads = {1, 2}
    /\ BigInt(val.result.holdings.xSTRKAmount) >= 1

----------------------------------------------------------------------------
(* Properties of the Nostra lending and Opus valuators *)

\* the balance a Nostra vault stands for: zero when it is not deployed at
\* the queried block or when its balance_of fails
NostraContribution ==
    [i \in DOMAIN NostraVaultTypes |->
       IF /\ Queryable(NostraVaultTypes[i], val.blockNumber)
          /\ val.env.failed # NostraVaultTypes[i]
       THEN val.env.balance[NostraVaultTypes[i]] ELSE 0]

\* C16 as stated: a receipt-token contract whose balance_of fails, or that
\* is not yet deployed at the queried block, contributes zero:
\* getNostraHoldings returns the sum of the other vaults as xSTRKAmount, and
\* STRKAmount '0'.
C16_PerVaultIsolation ==
    (val.done /\ val.kind = "nostraLending") =>
        /\ val.result.outcome = "return"
        /\ val.result.holdings = Holdings(SumSeq(NostraContribution), 0)

\* C16: a receipt-token contract that is not yet deployed at the queried
\* block is not read and contributes zero, and getNostraHoldings returns the
\* sum of the other vaults as xSTRKAmount with STRKAmount '0'; when the
\* balance_of of a deployed vault fails, getNostraHoldings throws and
\* nothing is summed.
C16_NotDeployedIsZeroFailureThrows ==
    (val.done /\ val.kind = "nostraLending") =>
        /\ ReadContracts =
              {c \in DOMAIN NOSTRA_CONFIG.contracts : Queryable(c, val.blockNumber)}
        /\ IF val.env.failed \in ReadContracts
           THEN val.result.outcome = "throw"
           ELSE /\ val.result.outcome = "return"
                /\ val.result.holdings = Holdings(SumSeq(NostraContribution), 0)

C16_Witness ==
    /\ val.done
    /\ val.kind = "nostraLending"
    /\ val.blockNumber = Num(NOSTRA_CONFIG.contracts.nXSTRK.deploymentBlock)
    /\ \A c \in DOMAIN NOSTRA_CONFIG.contracts : val.env.balance[c] = 1
    /\ val.env.failed = "iXSTRKC"
    /\ ReadContracts = {"dXSTRK", "nXSTRK"}
    /\ val.result.outcome = "return"
    /\ val.result.holdings = Holdings(2, 0)

----------------------------------------------------------------------------
(* Properties of the Vesu valuator *)

\* C17: in one vault slot, when neither version is queryable the result is
\* zero holdings and nothing is read; when only v1 is queryable, v1's shares
\* are read and converted by v1; when v2 is queryable, the shares of v1 and
\* of v2 are read and each is converted by v2's convert_to_assets; the
\* result is the sum of the converted amounts, with STRKAmount '0'.
C17_VaultVersions ==
    (val.done /\ val.kind = "vesuVault") =>
        LET v1 == val.env.vault.config1
            v2 == val.env.vault.config2
            shares == val.env.shares
            rate == val.env.rate
            r == val.result
        IN
        /\ (~Queryable(v1, val.blockNumber) /\ ~Queryable(v2, val.blockNumber))
              => /\ r.outcome = "return"
                 /\ r.holdings = createZeroHoldings
                 /\ r.reads = <<>>
        /\ val.env.failAt = 0 => r.outcome = "return"
        /\ r.outcome = "return" => r.holdings.STRKAmount = <<"0">>
        /\ (r.outcome = "return" /\ Queryable(v1, val.blockNumber)
                                 /\ ~Queryable(v2, val.blockNumber))
              => /\ r.reads = <<Read(v1, "balance_of", 0),
                                Read(v1, "convert_to_assets", shares[1])>>
                 /\ BigInt(r.holdings.xSTRKAmount) = shares[1] * rate[1]
        /\ (r.outcome = "return" /\ Queryable(v2, val.blockNumber))
              => /\ r.reads = <<Read(v1, "balance_of", 0),
                                Read(v2, "convert_to_assets", shares[1]),
                                Read(v2, "balance_of", 0),
                                Read(v2, "convert_to_assets", shares[2])>>
                 /\ BigInt(r.holdings.xSTRKAmount) =
                        shares[1] * rate[2] + shares[2] * rate[2]

C17_Witness ==
    /\ val.done
    /\ val.kind = "vesuVault"
    /\ val.blockNumber.t = "number"
    /\ Queryable(val.env.vault.config2, val.blockNumber)
    /\ val.env.shares = <<1, 1>>
    /\ val.env.rate = <<1, 2>>
    /\ val.result.outcome = "return"
    /\ val.result.holdings.xSTRKAmount = <<"4">>
    /\ Len(val.result.reads) = 4

\* the pairs whose position_unsafe was issued
LookedUp ==
    {val.result.reads[i].arg : i \in DOMAIN val.result.reads}

PoolDeployed(i) ==
    isContractDeployed(val.blockNumber,
                       VESU_CONFIG.pools[pools[i].id].deploymentBlock, NoMaxBlock)

\* C18: all position_unsafe lookups of one getCollateralHoldings go to one
\* singleton: singletonV2 whenever its gate is open (as at 'latest' and
\* 'pending'), else singleton v1 when its gate is open, else there is no
\* lookup and the collateral is zero; at no integer block are both gates
\* open.
C18_OneSingleton ==
    (val.done /\ val.kind = "vesuCollateral") =>
        /\ Cardinality(ReadContracts) <= 1
        /\ Queryable("singletonV2", val.blockNumber)
              => ReadContracts \subseteq {"singletonV2"}
        /\ (~Queryable("singletonV2", val.blockNumber)
                /\ Queryable("singleton", val.blockNumber))
              => ReadContracts \subseteq {"singleton"}
        /\ (~Queryable("singletonV2", val.blockNumber)
                /\ ~Queryable("singleton", val.blockNumber))
              => /\ val.result.reads = <<>>
                 /\ val.result.outcome = "return"
                 /\ val.result.holdings = createZeroHoldings
        /\ val.blockNumber \in {Latest, Pending}
              => Queryable("singletonV2", val.blockNumber)
        /\ val.blockNumber.t = "number"
              => ~(Queryable("singleton", val.blockNumber)
                     /\ Queryable("singletonV2", val.blockNumber))

C18_Witness ==
    /\ val.done
    /\ val.kind = "vesuCollateral"
    /\ val.blockNumber = Latest
    /\ ReadContracts = {"singletonV2"}
    /\ LookedUp = DOMAIN pools
    /\ val.result.outcome = "return"

\* the collateral of the pairs that were looked up and answered
CollateralOf(S) ==
    SumSeq([i \in DOMAIN pools |->
              IF i \in S /\ i # val.env.unknownPool /\ i # val.env.failed
              THEN val.env.collateral[i] ELSE 0])

TroveBalanceReads ==
    SelectSeq(val.result.reads,
              LAMBDA r : r.entrypoint = "get_trove_asset_balance")

\* C20: when get_user_trove_ids answers an empty list, getOpusHoldings
\* returns zero holdings and issues no get_trove_asset_balance; otherwise it
\* issues exactly one get_trove_asset_balance per trove id and xSTRKAmount
\* is the sum of the balances returned; STRKAmount is always '0'.
C20_TroveAggregation ==
    (val.done /\ val.kind = "opus" /\ val.result.reads # <<>>
        /\ val.env.failAt # 1) =>
        LET ids == val.env.userTroves.ids IN
        /\ val.result.outcome = "return" => val.result.holdings.STRKAmount = <<"0">>
        /\ Len(ids) = 0 =>
              /\ val.result.outcome = "return"
              /\ val.result.holdings = createZeroHoldings
              /\ TroveBalanceReads = <<>>
        /\ Len(ids) > 0 =>
              /\ TroveBalanceReads =
                    [i \in 1..Len(ids) |->
                       Read("opus", "get_trove_asset_balance", ids[i])]
              /\ val.env.failAt \notin 2..(Len(ids) + 1)
                    => /\ val.result.outcome = "return"
                       /\ BigInt(val.result.holdings.xSTRKAmount) =
                             SumSeq([i \in 1..Len(ids) |-> val.env.balance[ids[i]]])

C20_Witness ==
    /\ val.done
    /\ val.kind = "opus"
    /\ val.env.userTroves.ids = <<1, 2>>
    /\ val.env.balance = <<1, 1>>
    /\ Len(TroveBalanceReads) = 2
    /\ val.result.outcome = "return"
    /\ val.result.holdings = Holdings(2, 0)

\* a chain call of the strategy-vault valuator failed: the contract's gate
\* was open and the environment fails one of the calls
StrategyVaultCallFailed ==
    /\ val.done
    /\ val.kind \in {"strkfarm", "strkfarmEkubo"}
    /\ val.env.failAt # 0
    /\ Queryable(IF val.kind = "strkfarm" THEN "xSTRKSensei" ELSE "ekuboXSTRKSTRK",
                 val.blockNumber)

\* C21 as stated: in both strategy-vault valuators a failing chain call
\* (describe_position, balanceOf, convert_to_assets) is caught locally and
\* the valuator returns zero holdings, not an error.
C21_BothDowngradeLocally ==
    StrategyVaultCallFailed =>
        /\ val.result.outcome = "return"
        /\ val.result.holdings = createZeroHoldings

\* C21 as the source has it: getSenseiHoldings catches a failure of
\* describe_position and returns zero holdings; getEkuboSTRKFarmHoldings has
\* no local catch, so a failure of balanceOf or of convert_to_assets is
\* thrown after the failing call (no later call is made) and getHoldings of
\* that valuator, which has the failure boundary, answers success = false.
C21_OnlySenseiDowngradesLocally ==
    StrategyVaultCallFailed =>
        /\ val.kind = "strkfarm" =>
              /\ val.result.outcome = "return"
              /\ val.result.holdings = createZeroHoldings
              /\ val.result.reads = <<Read("xSTRKSensei", "describe_position", 0)>>
        /\ val.kind = "strkfarmEkubo" =>
              /\ val.result.outcome = "throw"
              /\ Len(val.result.reads) = val.env.failAt
              /\ val.result.reads[1] = Read("ekuboXSTRKSTRK", "balanceOf", 0)
              /\ HasFailureBoundary("strkfarmEkubo")

C21_Witness ==
    /\ val.done
    /\ val.kind = "strkfarmEkubo"
    /\ val.blockNumber = Latest
    /\ val.env.failAt = 2
    /\ val.env.balance = 1
    /\ val.result.outcome = "throw"
    /\ Len(val.result.reads) = 2

----------------------------------------------------------------------------
(* Properties of the arithmetic *)

\* digits * m + carry, as decimal digits
RECURSIVE DigitsTimes(_, _, _)
DigitsTimes(digits, m, carry) ==
    IF Len(digits) = 0 THEN IF carry = 0 THEN <<>> ELSE toString(carry)
    ELSE LET v == DigitVal(digits[Len(digits)]) * m + carry IN
         DigitsTimes(SubSeq(digits, 1, Len(digits) - 1), m, v \div 10)
             \o <<Digits[(v % 10) + 1]>>

\* s is the decimal string of a natural number
IsDecimalString(s) ==
    /\ Len(s) >= 1
    /\ \A i \in DOMAIN s : \E d \in DOMAIN Digits : Digits[d] = s[i]
    /\ Len(s) > 1 => s[1] # "0"

\* q = floor(a * 10^18 / d): q * d + r = a * 10^18 for a remainder r < d
IsScaledQuotient(q, a, d) ==
    /\ IsDecimalString(q)
    /\ \E r \in 0..(d - 1) :
          StripLeadingZeros(DigitsTimes(q, d, r)) =
              IF a = 0 THEN <<"0">>
              ELSE toString(a) \o [i \in 1..18 |-> "0"]

\* C22: getExchangeRate returns the decimal string of
\* floor(totalAssets * 10^18 / totalSupply) when totalSupply > 0, and
\* exactly '0', without throwing, when totalSupply is 0 or the vault is not
\* deployed at the queried block.
C22_ExchangeRate ==
    (val.done /\ val.kind = "exchangeRate") =>
        /\ ~Queryable("xSTRK", val.blockNumber) =>
              val.result = StringReturned(<<"0">>, <<>>)
        /\ (Queryable("xSTRK", val.blockNumber) /\ val.env.failAt = 0) =>
              /\ val.result.outcome = "return"
              /\ val.env.totalSupply = 0 => val.result.value = <<"0">>
              /\ val.env.totalSupply > 0 =>
                    IsScaledQuotient(val.result.value, val.env.totalAssets,
                                     val.env.totalSupply)

C22_Witness ==
    /\ val.done
    /\ val.kind = "exchangeRate"
    /\ val.blockNumber = Latest
    /\ val.env = [totalAssets |-> 2, totalSupply |-> 3, failAt |-> 0]
    /\ val.result.value = [i \in 1..18 |-> "6"]

\* C23: getLPHoldings returns ('0','0'), with no division error, when
\* total_supply is 0, and otherwise xSTRKAmount = floor(balance / totalSupply
\* * reserve0) and STRKAmount = floor(balance / totalSupply * reserve1), the
\* quotient and the product being those of doubles; balance 50 of supply 100
\* with reserves 1000 and 2000 gives 500 and 1000, and balance 1 of supply 49
\* with reserve 49 gives 0, the product of the doubles being just below 1.
C23_LpShare ==
    (val.done /\ val.kind = "nostraDex" /\ val.env.failAt = 0
        /\ Queryable("lpToken", val.blockNumber)) =>
        LET e == val.env
            floorOf(reserve) ==
                MathFloor(NumberTimes(NumberDivide(e.balance, e.totalSupply),
                                      reserve))
        IN
        /\ val.result.outcome = "return"
        /\ Len(val.result.reads) = 3
        /\ e.totalSupply = 0 => val.result.holdings = createZeroHoldings
        /\ e.totalSupply > 0 =>
              /\ val.result.holdings.xSTRKAmount = toString(floorOf(e.reserve0))
              /\ val.result.holdings.STRKAmount = toString(floorOf(e.reserve1))
        /\ (e.balance = 50 /\ e.totalSupply = 100 /\ e.reserve0 = 1000
               /\ e.reserve1 = 2000) =>
              val.result.holdings =
                  [xSTRKAmount |-> <<"5", "0", "0">>,
                   STRKAmount |-> <<"1", "0", "0", "0">>]
        /\ (e.balance = 1 /\ e.totalSupply = 49 /\ e.reserve0 = 49) =>
              val.result.holdings.xSTRKAmount = <<"0">>

C23_Witness ==
    /\ val.done
    /\ val.kind = "nostraDex"
    /\ val.blockNumber = Latest
    /\ val.env.balance = 50
    /\ val.env.totalSupply = 100
    /\ val.env.reserve0 = 1000
    /\ val.env.reserve1 = 2000
    /\ val.result.holdings = Holdings(500, 1000)

\* C24: addHoldings adds the two amounts of its arguments as integers,
\* component by component; it is commutative and associative, zero holdings
\* is its identity on both sides, and zero plus zero is zero.
C24_AddHoldingsAlgebra ==
    (val.done /\ val.kind = "addHoldings") =>
        LET a == val.env.a
            b == val.env.b
            c == val.env.c
            zero == createZeroHoldings
        IN
        /\ val.result.outcome = "return"
        /\ BigInt(val.result.holdings.xSTRKAmount) =
              BigInt(a.xSTRKAmount) + BigInt(b.xSTRKAmount)
        /\ BigInt(val.result.holdings.STRKAmount) =
              BigInt(a.STRKAmount) + BigInt(b.STRKAmount)
        /\ IsDecimalString(val.result.holdings.xSTRKAmount)
        /\ IsDecimalString(val.result.holdings.STRKAmount)
        /\ addHoldings(a, b) = addHoldings(b, a)
        /\ addHoldings(addHoldings(a, b), c) = addHoldings(a, addHoldings(b, c))
        /\ addHoldings(a, zero) = a
        /\ addHoldings(zero, a) = a
        /\ addHoldings(zero, zero) = zero

C24_Witness ==
    /\ val.done
    /\ val.kind = "addHoldings"
    /\ val.env.a = Holdings(5, 10)
    /\ val.env.b = Holdings(5, 0)
    /\ val.result.holdings = Holdings(10, 10)

----------------------------------------------------------------------------
(* Properties of the interleaving of the tasks *)

\* the task of protocol k has taken a step: a getProtocolHoldings of k settled
Completed(k) == lap'[k] # lap[k]

\* the holdings a response can carry
ResponseData == {Holdings(x, s) : x \in 0..MaxAmount, s \in 0..MaxAmount}

\* adding two responses to total in either order gives the same total
UpdatesCommute ==
    \A d1, d2 \in ResponseData :
        AddToTotal(AddToTotal(total, d1), d2) = AddToTotal(AddToTotal(total, d2), d1)

\* a settling fetch of k with a successful response adds its holdings to the
\* total that is there and stores them under k; another outcome leaves total
\* alone; the entries of the other protocols are never touched
UpdateApplied ==
    \A k \in ProtocolType :
        Completed(k) =>
            /\ DOMAIN byProtocol' = DOMAIN byProtocol
            /\ \A j \in DOMAIN byProtocol \ {k} : byProtocol'[j] = byProtocol[j]
            /\ IF last'[k].kind = "response" /\ last'[k].success
               THEN /\ BigInt(total'.xSTRKAmount) =
                          BigInt(total.xSTRKAmount) + BigInt(byProtocol'[k].xSTRKAmount)
                    /\ BigInt(total'.STRKAmount) =
                          BigInt(total.STRKAmount) + BigInt(byProtocol'[k].STRKAmount)
               ELSE total' = total

----------------------------------------------------------------------------
(* Properties of the responses' attribution *)

\* the responses getProtocolHoldings(k, request) can return in this state
ResponsesOf(k) ==
    {r \in {getProtocolHoldings(services, k, request, env) : env \in Envs(k)} :
        r.kind = "response"}

\* C26: every response that getProtocolHoldings(k, request) returns for a
\* requested protocol k, success or failure, carries protocol = k, so the
\* responses of two different protocols never carry the same protocol field.
C26_ResponseAttribution ==
    phase # "idle" =>
        /\ \A k \in protocols : \A r \in ResponsesOf(k) : r.protocol = k
        /\ \A j, k \in protocols :
              j # k => \A rj \in ResponsesOf(j), rk \in ResponsesOf(k) :
                          rj.protocol # rk.protocol

----------------------------------------------------------------------------
(* Properties of the providers *)

\* C27: after any sequence of setProvider and updateNetwork calls, with any
\* provider values, an unset one included, every registered valuator's
\* provider is the manager's current provider.
C27_RegistryProviderConsistency ==
    \A k \in DOMAIN services : services[k].provider = manager.provider

\* the reads that go to a Starknet node; the query of the GraphQL index and
\* the request to the REST endpoint do not
IsChainRead(read) == read.contract \notin {"graphql", "rest"}

\* C28: when getHoldings of a valuator runs after setProvider(p), every chain
\* read it performs, contract call or getBlock, goes through p.
C28_SwapReachesEveryRead ==
    (val.done /\ val.after.name = "setProvider") =>
        \A i \in DOMAIN val.result.reads :
            IsChainRead(val.result.reads[i]) => val.through[i] = val.after.arg

----------------------------------------------------------------------------
(* Properties of the EndurSDK *)

\* C29: after updateConfig with a network that differs from the network the
\* SDK had, api, starknet and lst have been constructed anew for the new
\* network and holdings.updateNetwork(network) has been invoked; after
\* updateConfig with the same network or with none, nothing is rebuilt.
C29_NetworkChangePropagates ==
    sdk.call.name = "updateConfig" =>
        LET before == sdk.call.before
            network == sdk.call.arg
        IN
        IF network # NoNetwork /\ network # before.network
        THEN /\ sdk.config.network = network
             /\ sdk.built = before.built + 1
             /\ sdk.starknet.network = network
             /\ manager.constructed = before.constructed + 1
             /\ manager.network = network
        ELSE /\ sdk.built = before.built
             /\ manager.constructed = before.constructed

----------------------------------------------------------------------------
(* Properties of the protocol identifiers *)

Range(seq) == {seq[i] : i \in DOMAIN seq}

\* C30: the ids that getAvailableProtocols lists are the ids registered in
\* the service map and the default protocols of getMultiProtocolHoldings:
\* every listed protocol resolves in getProtocolHoldings and every
\* aggregated protocol is listed.
C30_ProtocolIdentifiersAgree ==
    /\ Range(getAvailableProtocols) = DOMAIN services
    /\ Range(getAvailableProtocols) = Range(DefaultProtocols)

====
